---- MODULE Spec2Model ----
(***************************************************************************)
(* The katsu bytecode virtual machine (src/interpreter.py): an explicit,   *)
(* heap-resident call stack of CallFrames, tail calls, multi-shot          *)
(* continuations (call/cc), return continuations (call/rc), cleanup        *)
(* actions (cleanup:), panic!: and condition signaling (handle-signal:).   *)
(*                                                                         *)
(* The program under evaluation is an input: Init draws one top-level      *)
(* expression from Programs (and one binding of handle-signal: from        *)
(* HandlerKinds), eval_toplevel compiles it and the VM steps it with       *)
(* eval_one_op until the top-level frame returns, a panic surfaces, a      *)
(* RunError aborts evaluation or a host exception escapes.                 *)
(*                                                                         *)
(* CallFrames, Contexts, Continuation snapshots and dataclass instances    *)
(* are Python objects with identity; they live in the heaps `frames`,      *)
(* `ctxs`, `conts` and `instances` and are referred to by index.  The      *)
(* programs run in the global Context two dataclass definitions and one    *)
(* top-level let have left behind (DataWorld, LetSlots).                   *)
(*                                                                         *)
(* Types, mixins, dataclasses and multimethods are defined at run time     *)
(* (src/builtin.py: mixin:, mix-in:to:, data:extends:has:, method:does:).  *)
(* `worlds` holds what these definitions mutate; TypeSpec, DispatchSpec,   *)
(* PairSpec and DefinitionSpec evaluate them one top-level expression per  *)
(* step.                                                                   *)
(***************************************************************************)
EXTENDS Integers, Sequences, FiniteSets, TLC

VARIABLES
    frames,       \* heap of CallFrame objects, indexed by identity
    call_stack,   \* RuntimeState.call_stack: frame identities, bottom first
    panic_value,  \* RuntimeState.panic_value
    ctxs,         \* heap of Context objects
    conts,        \* heap of ContinuationValue snapshots (RuntimeState copies)
    instances,    \* heap of DataclassValue objects
    status,       \* where eval_toplevel is: "running" or how it ended
    result,       \* what eval_toplevel returned or raised
    input,        \* the program and the handle-signal: binding Init drew
    last,         \* history: what the latest eval_one_op did
    log,          \* history: one entry per frame popped by a return
    worlds,       \* per interpreter process: types, global slots, compiled bodies
    outcome       \* history: what the latest definition or top-level send did

machine == <<frames, call_stack, panic_value, ctxs, conts, instances, status, result, input,
             last, log>>

vars == <<frames, call_stack, panic_value, ctxs, conts, instances, status, result, input,
          last, log, worlds, outcome>>

(***************************************************************************)
(* Values (class Value and its subclasses).  Every value is a record with  *)
(* a tag t.                                                                *)
(***************************************************************************)
None == [t |-> "none"]
NullValue == [t |-> "null"]
NumberValue(n) == [t |-> "number", value |-> n]
BoolValue(b) == [t |-> "bool", value |-> b]
SymbolValue(s) == [t |-> "symbol", symbol |-> s]
StringValue(s) == [t |-> "string", value |-> s]
TupleValue(cs) == [t |-> "tuple", components |-> cs]
VectorValue(cs) == [t |-> "vector", components |-> cs]
ContinuationValue(k) == [t |-> "continuation", state |-> k]
ReturnContinuationValue(f) == [t |-> "return-continuation", return_to |-> f]
ContextRef(c) == [t |-> "context", id |-> c]
\* A TypeValue as a value: the type object is types[name].
TypeValue(name) == [t |-> "type", name |-> name]
DataclassValue(type, values) == [t |-> "dataclass", type |-> type, values |-> values]
\* A DataclassValue as a value: the object is instances[id].
DataclassRef(type, id) == [t |-> "dataclass", type |-> type, id |-> id]
\* The string intrinsic__panic_ pushes in place of a result.
PanicMarker == [t |-> "host-string", value |-> "<this value must not be used!>"]

QuoteValue(parameters, body, comp_ctxt, context) ==
    [t |-> "quote", parameters |-> parameters, body |-> body,
     comp_ctxt |-> comp_ctxt, context |-> context]

IsNone(v) == v.t = "none"

\* type_of: the name of the builtin type of a value; None for what type_of
\* has no branch for (a Context, the panic marker).
type_of(v) ==
    CASE v.t = "number" -> "Number"
      [] v.t = "string" -> "String"
      [] v.t = "bool" -> "Bool"
      [] v.t = "null" -> "Null"
      [] v.t = "symbol" -> "Symbol"
      [] v.t = "tuple" -> "Tuple"
      [] v.t = "vector" -> "Vector"
      [] v.t = "quote" -> "Quote"
      [] v.t = "continuation" -> "Continuation"
      [] v.t = "return-continuation" -> "ReturnContinuation"
      [] v.t = "type" -> "Type"
      [] v.t = "dataclass" -> v.type
      [] OTHER -> "None"

(***************************************************************************)
(* Expressions (the parser's AST nodes the compiler consumes).             *)
(***************************************************************************)
NoExpr == [e |-> "none"]
LiteralExpr(v) == [e |-> "literal", value |-> v]
NameExpr(n) == [e |-> "name", name |-> n]
QuoteExpr(parameters, body) == [e |-> "quote", parameters |-> parameters, body |-> body]
\* target may be NoExpr (elided receiver); message is the colon-joined selector.
MessageExpr(target, message, args) ==
    [e |-> "message", message |-> message, args |-> <<target>> \o args]
TailCallExpr(call) == [e |-> "tail-call", call |-> call]
SequenceExpr(parts) == [e |-> "sequence", sequence |-> parts]
DataExpr(components) == [e |-> "data", components |-> components]
TupleExpr(components) == [e |-> "tuple", components |-> components]
LetExpr(name, value) == [e |-> "let", name |-> name, value |-> value]
\* method: [<param> <message>] does: [<body>]
MethodExpr(param, message, body) == [e |-> "method", param |-> param, message |-> message, body |-> body]

(***************************************************************************)
(* Bytecode (class BytecodeOp).                                            *)
(***************************************************************************)
Op(op, a, n) == [op |-> op, a |-> a, n |-> n]

(***************************************************************************)
(* Compiler._compile_expr.  ctxt is the CompilationContext chain as the    *)
(* compiler's lookup sees it: the names bound to a value (locals and       *)
(* parameters, UndeterminedValue, and Value slots: they lower to get-slot) *)
(* and the names bound to a method (MultiMethod, UndeterminedMethod: they  *)
(* lower to an invoke).  An unknown name is a compilation error (ok is     *)
(* FALSE: a ValueError leaves the compiler).  The result is the emitted    *)
(* code and the context after it (let:=: adds its local).                  *)
(***************************************************************************)
\* slots holds the names of the innermost CompilationContext itself: a new
\* one has none.
\* base_is_context: the base is a runtime Context (a top-level compilation);
\* defined: the methods method:does: has put into that Context so far.
CompilationContext(values, methods) ==
    [values |-> values, methods |-> methods, slots |-> {}, base_is_context |-> TRUE,
     defined |-> <<>>]

\* A CompilationContext with the given UndeterminedValue slots on top of base.
WithLocals(base, names) ==
    [values |-> base.values \cup names, methods |-> base.methods \ names, slots |-> names,
     base_is_context |-> FALSE, defined |-> <<>>]

\* compiler.ctxt.slots[local_name] = UndeterminedValue(local_name)
with_slot(ctxt, name) ==
    [ctxt EXCEPT !.values = @ \cup {name}, !.methods = @ \ {name},
                 !.slots = @ \cup {name}]

Compiled(code, ctxt, ok) == [code |-> code, ctxt |-> ctxt, ok |-> ok]

Then(first, rest) == Compiled(first.code \o rest.code, rest.ctxt, first.ok /\ rest.ok)

RECURSIVE CompileExpr(_, _, _)
RECURSIVE CompileArgs(_, _, _)
RECURSIVE CompileParts(_, _, _)
RECURSIVE CompileComponents(_, _, _)

compile_invocation(message, args, tail_call, ctxt) ==
    IF message \in ctxt.values
    THEN Compiled(<<Op("get-slot", message, 0)>>, ctxt,
                  args[1].e = "none" /\ Len(args) = 1)
    ELSE IF message \in ctxt.methods
    THEN Then(CompileArgs(args, 1, ctxt),
              Compiled(<<Op(IF tail_call THEN "tail-invoke" ELSE "invoke", message, Len(args))>>,
                       ctxt, TRUE))
    ELSE Compiled(<<>>, ctxt, FALSE)

\* Then keeps the context of its second argument; the code emitted after an
\* argument sees the locals the argument declared.
After(first, code) == Compiled(first.code \o code, first.ctxt, first.ok)

CompileArg(arg, ctxt) ==
    IF arg.e = "none" THEN Compiled(<<Op("push-default-receiver", None, 0)>>, ctxt, TRUE)
    ELSE CompileExpr(arg, FALSE, ctxt)

ArgsFrom(one, args, i) ==
    LET rest == CompileArgs(args, i + 1, one.ctxt)
    IN Compiled(one.code \o rest.code, rest.ctxt, one.ok /\ rest.ok)

CompileArgs(args, i, ctxt) ==
    IF i > Len(args) THEN Compiled(<<>>, ctxt, TRUE)
    ELSE ArgsFrom(CompileArg(args[i], ctxt), args, i)

PartsFrom(one, parts, i) ==
    LET rest == CompileParts(parts, i + 1, one.ctxt)
    IN Compiled(one.code \o (IF i = Len(parts) THEN <<>> ELSE <<Op("drop", None, 0)>>)
                         \o rest.code,
                rest.ctxt, one.ok /\ rest.ok)

CompileParts(parts, i, ctxt) ==
    IF i > Len(parts) THEN Compiled(<<>>, ctxt, TRUE)
    ELSE PartsFrom(CompileExpr(parts[i], FALSE, ctxt), parts, i)

ComponentsFrom(one, components, i) ==
    LET rest == CompileComponents(components, i + 1, one.ctxt)
    IN Compiled(one.code \o rest.code, rest.ctxt, one.ok /\ rest.ok)

CompileComponents(components, i, ctxt) ==
    IF i > Len(components) THEN Compiled(<<>>, ctxt, TRUE)
    ELSE ComponentsFrom(CompileExpr(components[i], FALSE, ctxt), components, i)

\* The quote's parameter names as the compiler binds them.
ParamNames(parameters) == IF parameters = <<>> THEN <<"it">> ELSE parameters

Names(seq) == {seq[i] : i \in 1..Len(seq)}

\* handle__let_eq_ (src/builtin.py), the compile-time handler of let:=:; a
\* name compiler.ctxt itself holds already is a ValueError.  value is the
\* compiled value expression, ctxt the context before it was compiled.
handle__let_eq_(name, value, ctxt) ==
    IF name \in ctxt.slots THEN Compiled(<<>>, ctxt, FALSE)
    ELSE Compiled(value.code \o <<Op("create-slot", name, 0)>>,
                  with_slot(value.ctxt, name), value.ok)

\* handle__method_does_ on a unary declaration [param message]: nothing is
\* emitted; the method goes into the base Context under a message that has no
\* slot yet (create_or_add_method raises ValueError when the slot holds a
\* value, and for a second method of the same signature).  Compilation also
\* fails, on the handler's assertion, anywhere but at top level.
handle__method_does_unary(param, message, body, ctxt) ==
    IF ~ctxt.base_is_context \/ message \in ctxt.values \cup ctxt.methods
    THEN Compiled(<<>>, ctxt, FALSE)
    ELSE Compiled(<<>>,
                  [ctxt EXCEPT !.methods = @ \cup {message},
                               !.defined = Append(@, [message |-> message,
                                                      param_names |-> <<param>>,
                                                      body |-> body,
                                                      comp_ctxt |-> [WithLocals(
                                                          [ctxt EXCEPT !.methods = @ \cup {message}],
                                                          {param}) EXCEPT !.slots = @ \cup {message}]])],
                  TRUE)

CompileExpr(expr, tail_call, ctxt) ==
    CASE expr.e = "tail-call" -> CompileExpr(expr.call, TRUE, ctxt)
      [] expr.e = "name" ->
            compile_invocation(expr.name, <<NoExpr>>, tail_call, ctxt)
      [] expr.e = "message" ->
            compile_invocation(expr.message, expr.args, tail_call, ctxt)
      [] expr.e = "literal" ->
            Compiled(<<Op("push-value", expr.value, 0)>>, ctxt, TRUE)
      [] expr.e = "quote" ->
            \* CompiledBody.__post_init__ compiles the body right away.
            Compiled(<<Op("push-closure",
                          QuoteValue(expr.parameters, expr.body,
                                     WithLocals(ctxt, Names(ParamNames(expr.parameters))), 0),
                          0)>>,
                     ctxt,
                     CompileExpr(expr.body, FALSE,
                                 WithLocals(ctxt, Names(ParamNames(expr.parameters)))).ok)
      [] expr.e = "data" ->
            After(CompileComponents(expr.components, 1, ctxt),
                  <<Op("components>vector", None, Len(expr.components))>>)
      [] expr.e = "sequence" -> CompileParts(expr.sequence, 1, ctxt)
      [] expr.e = "tuple" ->
            After(CompileComponents(expr.components, 1, ctxt),
                  <<Op("components>tuple", None, Len(expr.components))>>)
      [] expr.e = "let" ->
            handle__let_eq_(expr.name, CompileExpr(expr.value, FALSE, ctxt), ctxt)
      [] expr.e = "method" ->
            handle__method_does_unary(expr.param, expr.message, expr.body, ctxt)

\* CompiledBody.maybe_recompile: the bytecode of a quote or method body.
maybe_recompile(body, comp_ctxt) == CompileExpr(body, FALSE, comp_ctxt).code

(***************************************************************************)
(* Runtime state.  The operators below thread a machine state st, the      *)
(* record of the heaps and RuntimeState fields plus exc, the host          *)
(* exception an operation raised ("none" when it returned).  A raise keeps *)
(* every mutation made before it, as in Python.                            *)
(***************************************************************************)
CallFrame(name, sequence, context, default_receiver, cleanup, is_cleanup, cleanup_retain) ==
    [name |-> name, sequence |-> sequence, spot |-> 0, data_stack |-> <<>>,
     context |-> context, default_receiver |-> default_receiver,
     cleanup |-> cleanup, is_cleanup |-> is_cleanup, cleanup_retain |-> cleanup_retain,
     force_unwind |-> FALSE, num_nonlocal_returns |-> 0]

Context(slots, base) == [slots |-> slots, base |-> base]

Raise(st, e) == [st EXCEPT !.exc = e]
Ok(st) == st.exc = "none"
TopId(st) == st.call_stack[Len(st.call_stack)]
PopFrame(st) == [st EXCEPT !.call_stack = SubSeq(@, 1, Len(@) - 1)]
PushData(st, f, v) == [st EXCEPT !.frames[f].data_stack = Append(@, v)]
DropLast(s, n) == SubSeq(s, 1, Len(s) - n)
TakeLast(s, n) == SubSeq(s, Len(s) - n + 1, Len(s))

\* The highest position of frame f in a call stack, 0 when absent.
PositionOf(stack, f) ==
    LET at == {i \in 1..Len(stack) : stack[i] = f}
    IN IF at = {} THEN 0 ELSE CHOOSE i \in at : \A j \in at : j <= i

\* Context chain lookup (eval_one_op's "Find the slot value" loops): the
\* binding of slot in the innermost Context that has it, None when unbound.
RECURSIVE lookup(_, _, _)
lookup(st, ctxt, slot) ==
    IF ctxt = 0 THEN None
    ELSE IF slot \in DOMAIN st.ctxs[ctxt].slots THEN st.ctxs[ctxt].slots[slot]
    ELSE lookup(st, st.ctxs[ctxt].base, slot)

\* shift_frame: advance the frame's pc; the assert runs after the increment.
shift_frame(st, f) ==
    LET s1 == [st EXCEPT !.frames[f].spot = @ + 1]
    IN IF s1.frames[f].spot <= Len(s1.frames[f].sequence) THEN s1
       ELSE Raise(s1, "AssertionError")

shift_top_frame(st) ==
    IF st.call_stack = <<>> THEN Raise(st, "AssertionError")
    ELSE shift_frame(st, TopId(st))

\* The test of invoke_compiled that turns a requested tail call into a
\* plain call.
TailCallRefused(frame) ==
    \/ frame.spot # Len(frame.sequence) - 1
    \/ frame.is_cleanup
    \/ ~IsNone(frame.cleanup)
    \/ frame.num_nonlocal_returns > 0

invoke_compiled(st, name, code, ctxt, default_receiver, cleanup, is_cleanup, cleanup_retain, tail_call) ==
    LET new == CallFrame(name, code, ctxt, default_receiver, cleanup, is_cleanup,
                         cleanup_retain)
        push(s) == [s EXCEPT !.frames = Append(@, new),
                             !.call_stack = Append(@, Len(s.frames) + 1)]
    IN IF (~is_cleanup /\ ~IsNone(cleanup_retain)) \/ (~IsNone(cleanup) /\ is_cleanup)
       THEN Raise(st, "AssertionError")
       ELSE IF st.call_stack = <<>> THEN push(st)
       ELSE LET f == TopId(st)
                frame == st.frames[f]
                in_range == IF is_cleanup
                            THEN 0 <= frame.spot /\ frame.spot <= Len(frame.sequence)
                            ELSE 0 <= frame.spot /\ frame.spot < Len(frame.sequence)
                tail == tail_call /\ ~TailCallRefused(frame)
            IN IF ~in_range THEN Raise(st, "AssertionError")
               ELSE IF tail THEN push(PopFrame(st))
               ELSE IF ~is_cleanup THEN push([st EXCEPT !.frames[f].spot = @ + 1])
               ELSE push(st)

\* A copy that hands back the frame itself: the snapshot and the running
\* stack would share their frames.
CallFrame_alias(st, f) == [st |-> st, id |-> f]

\* CallFrame.copy: a new CallFrame object with the same fields.
CallFrame_copy(st, f) ==
    [st |-> [st EXCEPT !.frames = Append(@, st.frames[f])], id |-> Len(st.frames) + 1]

\* [frame.copy() for frame in call_stack]
RECURSIVE CopyFrames(_, _, _)
CopyFrames(st, stack, i) ==
    IF i > Len(stack) THEN [st |-> st, ids |-> <<>>]
    ELSE LET one == CallFrame_copy(st, stack[i])
             rest == CopyFrames(one.st, stack, i + 1)
         IN [st |-> rest.st, ids |-> <<one.id>> \o rest.ids]

\* zip(param_names, args) as a dict: a repeated name keeps its last value.
NewSlots(param_names, args) ==
    LET n == IF Len(param_names) < Len(args) THEN Len(param_names) ELSE Len(args)
    IN [p \in {param_names[i] : i \in 1..n} |->
           args[CHOOSE i \in 1..n : param_names[i] = p /\
                                    \A j \in 1..n : param_names[j] = p => j <= i]]

\* call_impl, receiver a QuoteValue.
call_quote(message, st, receiver, args, cleanup, is_cleanup, cleanup_retain, tail_call) ==
    LET implicit == receiver.parameters = <<>> /\ Len(args) <= 1
        default_receiver == IF implicit /\ args # <<>> THEN args[1] ELSE NullValue
        param_names == IF implicit THEN <<"it">> ELSE receiver.parameters
        args1 == IF implicit THEN <<default_receiver>> ELSE args
    IN IF ~implicit /\ Len(receiver.parameters) # Len(args) THEN Raise(st, "ValueError")
       ELSE LET s1 == [st EXCEPT !.ctxs =
                          Append(@, Context(NewSlots(param_names, args1), receiver.context))]
            IN invoke_compiled(s1, message,
                               maybe_recompile(receiver.body, receiver.comp_ctxt),
                               Len(s1.ctxs), default_receiver, cleanup, is_cleanup,
                               cleanup_retain, tail_call)

\* call_impl, receiver a ContinuationValue.
call_continuation(message, st, receiver, args, cleanup, is_cleanup) ==
    IF ~IsNone(cleanup) \/ is_cleanup THEN Raise(st, "NotImplementedError")
    ELSE IF Len(args) # 1 THEN Raise(st, "ValueError")
    ELSE LET copied == CopyFrames(st, st.conts[receiver.state].call_stack, 1)
             s1 == [copied.st EXCEPT !.call_stack = copied.ids]
         IN PushData(s1, TopId(s1), args[1])

\* call_impl, receiver a ReturnContinuationValue: the search for the target
\* strictly below the top of the stack.
FoundFrame(st, return_to_frame) ==
    \E i \in 1..(Len(st.call_stack) - 1) : st.call_stack[i] = return_to_frame

\* The frames the second loop flags: from the top down to just above the
\* target, is_cleanup frames left alone.
FlagForUnwind(st, return_to_frame) ==
    LET at == PositionOf(st.call_stack, return_to_frame)
        above == {st.call_stack[i] : i \in (at + 1)..Len(st.call_stack)}
    IN [st EXCEPT !.frames = [f \in DOMAIN st.frames |->
            IF f \in above /\ ~st.frames[f].is_cleanup
            THEN [st.frames[f] EXCEPT !.force_unwind = TRUE]
            ELSE st.frames[f]]]

\* The bookkeeping done before the search: a ReturnContinuation whose target
\* is gone would fail with the count decremented and the frames flagged.
call_return_continuation_unchecked(message, st, receiver, args, cleanup, is_cleanup) ==
    IF ~IsNone(cleanup) \/ is_cleanup THEN Raise(st, "NotImplementedError")
    ELSE IF Len(args) # 1 THEN Raise(st, "ValueError")
    ELSE LET return_to_frame == receiver.return_to
             s1 == [st EXCEPT !.frames[return_to_frame].num_nonlocal_returns = @ - 1]
             s2 == FlagForUnwind(s1, return_to_frame)
             s3 == PushData(s2, TopId(s2), args[1])
         IN IF ~FoundFrame(st, return_to_frame) THEN Raise(s2, "ValueError")
            ELSE shift_top_frame(s3)

call_return_continuation(message, st, receiver, args, cleanup, is_cleanup) ==
    IF ~IsNone(cleanup) \/ is_cleanup THEN Raise(st, "NotImplementedError")
    ELSE IF Len(args) # 1 THEN Raise(st, "ValueError")
    ELSE LET return_to_frame == receiver.return_to
         IN IF ~FoundFrame(st, return_to_frame) THEN Raise(st, "ValueError")
            ELSE IF st.frames[return_to_frame].num_nonlocal_returns < 1
            THEN Raise(st, "AssertionError")
            ELSE LET s1 == [st EXCEPT !.frames[return_to_frame].num_nonlocal_returns = @ - 1]
                     s2 == FlagForUnwind(s1, return_to_frame)
                     s3 == PushData(s2, TopId(s2), args[1])
                 IN shift_top_frame(s3)

RECURSIVE call_impl(_, _, _, _, _, _, _, _)
call_impl(message, st, receiver, args, cleanup, is_cleanup, cleanup_retain, tail_call) ==
    IF (~is_cleanup /\ ~IsNone(cleanup_retain)) \/ (~IsNone(cleanup) /\ is_cleanup)
    THEN Raise(st, "AssertionError")
    ELSE CASE receiver.t = "quote" ->
                call_quote(message, st, receiver, args, cleanup, is_cleanup,
                           cleanup_retain, tail_call)
           [] receiver.t = "continuation" ->
                call_continuation(message, st, receiver, args, cleanup, is_cleanup)
           [] receiver.t = "return-continuation" ->
                call_return_continuation(message, st, receiver, args, cleanup, is_cleanup)
           [] OTHER ->
                \* Calling a non-callable value; the result is simply the value.
                IF ~IsNone(cleanup)
                THEN LET f == TopId(st)
                         s1 == call_impl("call", st, cleanup, <<>>, None, TRUE, receiver, FALSE)
                     IN IF Ok(s1) THEN shift_frame(s1, f) ELSE s1
                ELSE shift_top_frame(PushData(st, TopId(st), receiver))

(***************************************************************************)
(* The intrinsic handlers.                                                 *)
(***************************************************************************)
intrinsic__if_then_else(st, tail_call, receiver, cond, tbody, fbody) ==
    LET body == IF cond.t = "bool" /\ cond.value THEN tbody ELSE fbody
    IN IF body.t = "quote"
       THEN invoke_compiled(st, "<a quote>", maybe_recompile(body.body, body.comp_ctxt),
                            body.context, NullValue, None, FALSE, None, FALSE)
       ELSE shift_top_frame(PushData(st, TopId(st), body))

intrinsic__call(st, tail_call, receiver) ==
    call_impl("call", st, receiver, <<>>, None, FALSE, None, tail_call)

intrinsic__call_(st, tail_call, receiver, value) ==
    call_impl("call:", st, receiver, <<value>>, None, FALSE, None, tail_call)

intrinsic__call_star_(st, tail_call, receiver, value) ==
    IF value.t # "tuple" THEN Raise(st, "AssertionError")
    ELSE call_impl("call*:", st, receiver, value.components, None, FALSE, None, tail_call)

intrinsic__call_cc(st, tail_call, receiver) ==
    LET copied == CopyFrames(st, st.call_stack, 1)
        \* captured is history: the pc and data stack of each frame at capture.
        s1 == [copied.st EXCEPT !.conts =
                  Append(@, [call_stack |-> copied.ids, panic_value |-> st.panic_value,
                             captured |-> [i \in 1..Len(st.call_stack) |->
                                 [spot |-> st.frames[st.call_stack[i]].spot,
                                  data_stack |-> st.frames[st.call_stack[i]].data_stack]]])]
    IN call_impl("call/cc", s1, receiver, <<ContinuationValue(Len(s1.conts))>>,
                 None, FALSE, None, tail_call)

intrinsic__cleanup_(st, tail_call, receiver, cleanup) ==
    call_impl("cleanup:", st, receiver, <<>>, cleanup, FALSE, None, tail_call)

intrinsic__call_rc(st, tail_call, receiver) ==
    LET f == TopId(st)
        s1 == [st EXCEPT !.frames[f].num_nonlocal_returns = @ + 1]
    IN call_impl("call/rc", s1, receiver, <<ReturnContinuationValue(f)>>,
                 None, FALSE, None, tail_call)

\* Force all frames to unwind except for frames actively cleaning up.
\* panic!: flagging every frame of the call stack, cleanup frames included.
PanicFlags_all(st) ==
    [st EXCEPT !.frames = [f \in DOMAIN st.frames |->
        IF \E i \in 1..Len(st.call_stack) : st.call_stack[i] = f
        THEN [st.frames[f] EXCEPT !.force_unwind = TRUE]
        ELSE st.frames[f]]]

PanicFlags(st) ==
    [st EXCEPT !.frames = [f \in DOMAIN st.frames |->
        IF (\E i \in 1..Len(st.call_stack) : st.call_stack[i] = f) /\ ~st.frames[f].is_cleanup
        THEN [st.frames[f] EXCEPT !.force_unwind = TRUE]
        ELSE st.frames[f]]]

intrinsic__panic_(st, tail_call, receiver, value) ==
    LET s1 == PanicFlags(st)
        s2 == PushData(s1, TopId(s1), PanicMarker)
        s3 == [s2 EXCEPT !.panic_value = value]
    IN shift_top_frame(s3)

\* handler.handler(state, tail_call, *args) for the intrinsic_handlers table.
IntrinsicHandler(handler, st, tail_call, args) ==
    CASE handler = "if:then:else:" ->
            intrinsic__if_then_else(st, tail_call, args[1], args[2], args[3], args[4])
      [] handler = "call" -> intrinsic__call(st, tail_call, args[1])
      [] handler = "call:" -> intrinsic__call_(st, tail_call, args[1], args[2])
      [] handler = "call*:" -> intrinsic__call_star_(st, tail_call, args[1], args[2])
      [] handler = "call/cc" -> intrinsic__call_cc(st, tail_call, args[1])
      [] handler = "cleanup:" -> intrinsic__cleanup_(st, tail_call, args[1], args[2])
      [] handler = "call/rc" -> intrinsic__call_rc(st, tail_call, args[1])
      [] handler = "panic!:" -> intrinsic__panic_(st, tail_call, args[1], args[2])

(***************************************************************************)
(* Types (class TypeValue).  ts is the heap of type objects, by name: the  *)
(* bases, the cached C3 linearization and the registered subtypes of each. *)
(***************************************************************************)
Least(S) == CHOOSE i \in S : \A j \in S : i <= j

TypeObject(kind, bases, sealed, linearization, subtypes) ==
    [kind |-> kind, bases |-> bases, sealed |-> sealed,
     linearization |-> linearization, subtypes |-> subtypes]

Contains(seq, x) == \E i \in 1..Len(seq) : seq[i] = x

\* candidate not in lin[1:] for every lin
InTail(candidate, linearizations) ==
    \E i \in 1..Len(linearizations) :
        \E j \in 2..Len(linearizations[i]) : linearizations[i][j] = candidate

\* c3_merge: the merged list, or ok = FALSE where the code returns None.
RECURSIVE c3_merge(_)
c3_merge(linearizations) ==
    IF linearizations = <<>> THEN [ok |-> TRUE, merged |-> <<>>]
    ELSE LET good == {i \in 1..Len(linearizations) :
                         ~InTail(linearizations[i][1], linearizations)}
         IN IF good = {} THEN [ok |-> FALSE, merged |-> <<>>]
            ELSE LET head == linearizations[Least(good)][1]
                     removed == [i \in 1..Len(linearizations) |->
                                    IF linearizations[i][1] = head
                                    THEN Tail(linearizations[i]) ELSE linearizations[i]]
                     rest == c3_merge(SelectSeq(removed, LAMBDA lin : lin # <<>>))
                 IN [ok |-> rest.ok, merged |-> <<head>> \o rest.merged]

\* c3_linearization: ok = FALSE where it raises ValueError (an inheritance
\* cycle, or no linearization).
c3_linearization(ts, type) ==
    LET bases == ts[type].bases
        cycle == \E i \in 1..Len(bases) : Contains(ts[bases[i]].linearization, type)
        merge == c3_merge([i \in 1..Len(bases) |-> ts[bases[i]].linearization] \o <<bases>>)
    IN IF cycle THEN [ok |-> FALSE, linearization |-> <<>>]
       ELSE IF bases = <<>> THEN [ok |-> TRUE, linearization |-> <<type>>]
       ELSE IF ~merge.ok THEN [ok |-> FALSE, linearization |-> <<>>]
       ELSE [ok |-> TRUE, linearization |-> <<type>> \o merge.merged]

\* The loop of __post_init__: the new type joins the subtypes of every
\* type after itself in its linearization.
RECURSIVE RegisterSubtype(_, _, _, _)
RegisterSubtype(ts, name, linearization, i) ==
    IF i > Len(linearization) THEN ts
    ELSE RegisterSubtype(
            IF Contains(ts[linearization[i]].subtypes, name) THEN ts
            ELSE [ts EXCEPT ![linearization[i]].subtypes = Append(@, name)],
            name, linearization, i + 1)

\* TypeValue.__post_init__: the heap with the new type object in it; ok =
\* FALSE (heap unchanged) when its linearization raises.
post_init(ts, name, kind, bases, sealed) ==
    LET t0 == [n \in DOMAIN ts \cup {name} |->
                  IF n = name THEN TypeObject(kind, bases, sealed, <<>>, <<>>) ELSE ts[n]]
        lin == c3_linearization(t0, name)
        t1 == [t0 EXCEPT ![name].linearization = lin.linearization]
    IN IF ~lin.ok THEN [ok |-> FALSE, types |-> ts]
       ELSE [ok |-> TRUE, types |-> RegisterSubtype(t1, name, lin.linearization, 2)]

\* The second loop of try_set_bases; a raise leaves the loop where it is.
RECURSIVE Relinearize(_, _, _)
Relinearize(ts, subtypes, i) ==
    IF i > Len(subtypes) THEN [ok |-> TRUE, types |-> ts]
    ELSE LET lin == c3_linearization(ts, subtypes[i])
         IN IF ~lin.ok THEN [ok |-> FALSE, types |-> ts]
            ELSE Relinearize([ts EXCEPT ![subtypes[i]].linearization = lin.linearization],
                             subtypes, i + 1)

\* TypeValue.try_set_bases: ok = FALSE when it raises ValueError.
try_set_bases(ts, type, new_bases) ==
    LET t1 == [ts EXCEPT ![type].bases = new_bases]
        lin == c3_linearization(t1, type)
    IN IF ~lin.ok THEN [ok |-> FALSE, types |-> ts]
       ELSE Relinearize([t1 EXCEPT ![type].linearization = lin.linearization],
                        ts[type].subtypes, 1)

\* The type objects interpreter.py creates at import.
BuiltinTypeNames ==
    {"Number", "String", "Bool", "Null", "Symbol", "Vector", "Tuple", "Quote",
     "Continuation", "ReturnContinuation", "Type", "DataclassType"}

BuiltinTypes ==
    [n \in BuiltinTypeNames |->
        CASE n = "DataclassType" ->
                TypeObject("type", <<"Type">>, TRUE, <<"DataclassType", "Type">>, <<>>)
          [] n = "Type" -> TypeObject("type", <<>>, TRUE, <<"Type">>, <<"DataclassType">>)
          [] OTHER -> TypeObject("type", <<>>, TRUE, <<n>>, <<>>)]

(***************************************************************************)
(* Multimethod dispatch.                                                   *)
(***************************************************************************)
Linearization(ts, type) == ts[type].linearization

is_subtype(ts, a, b) ==
    LET la == Linearization(ts, a)
        lb == Linearization(ts, b)
    IN Len(la) >= Len(lb) /\ la[Len(la) - Len(lb) + 1] = lb[1]

ParameterAnyMatcher == [k |-> "any"]
ParameterTypeMatcher(type) == [k |-> "type", param_type |-> type]
ParameterValueMatcher(v) == [k |-> "value", param_value |-> v]

\* ParameterMatcher.matches: "yes", "no", or "raise" where is_subtype would
\* read the linearization of the None that type_of returns.
matches(ts, matcher, arg) ==
    CASE matcher.k = "any" -> "yes"
      [] matcher.k = "type" ->
            IF type_of(arg) = "None" THEN "raise"
            ELSE IF is_subtype(ts, type_of(arg), matcher.param_type) THEN "yes" ELSE "no"
      [] matcher.k = "value" -> IF arg = matcher.param_value THEN "yes" ELSE "no"

matcher_lte(ts, a, b) ==
    CASE b.k = "any" -> TRUE
      [] b.k = "type" ->
            (CASE a.k = "any" -> FALSE
               [] a.k = "type" -> is_subtype(ts, a.param_type, b.param_type)
               [] a.k = "value" -> TRUE)
      [] b.k = "value" ->
            (CASE a.k = "any" -> FALSE
               [] a.k = "type" -> FALSE
               [] a.k = "value" -> a.param_value = b.param_value)

method_lte(ts, a, b) ==
    \A i \in 1..Len(a.param_matchers) : matcher_lte(ts, a.param_matchers[i], b.param_matchers[i])

Method(param_matchers, body) == [param_matchers |-> param_matchers, body |-> body]
MultiMethod(name, methods) == [t |-> "multimethod", name |-> name, methods |-> methods]
IntrinsicMethodBody(handler) == [kind |-> "intrinsic", handler |-> handler]
NativeMethodBody(handler) == [kind |-> "native", handler |-> handler]
QuoteMethodBody(context, param_names, body, comp_ctxt) ==
    [kind |-> "quote", context |-> context, param_names |-> param_names, body |-> body,
     comp_ctxt |-> comp_ctxt]

\* The matchers of one method that do not answer True, and what the first
\* of them does: all(...) stops there, with False or with the exception.
Mismatches(ts, method, args) ==
    {i \in 1..Len(method.param_matchers) : matches(ts, method.param_matchers[i], args[i]) # "yes"}

FirstMismatch(ts, method, args, off) ==
    IF off = {} THEN "yes"
    ELSE matches(ts, method.param_matchers[Least(off)], args[Least(off)])

MethodMatches(ts, method, args) ==
    FirstMismatch(ts, method, args, Mismatches(ts, method, args))

\* The methods the loop of select_method cannot get past: the argument
\* count assertion fails or a matcher raises.
Failing(ts, ms, args) ==
    {i \in 1..Len(ms) :
        \/ Len(ms[i].param_matchers) # Len(args)
        \/ MethodMatches(ts, ms[i], args) = "raise"}

Options(ts, ms, args) ==
    {i \in 1..Len(ms) :
        /\ Len(ms[i].param_matchers) = Len(args)
        /\ MethodMatches(ts, ms[i], args) = "yes"}

\* A select_method that returns the earliest matching method without
\* comparing it with the other candidates.
Resolve_earliest(ts, ms, args, bad, options) ==
    IF bad # {}
    THEN [kind |-> "raise",
          exc |-> IF Len(ms[Least(bad)].param_matchers) # Len(args)
                  THEN "AssertionError" ELSE "AttributeError"]
    ELSE IF options = {}
    THEN [kind |-> "signal", condition_name |-> "no-matching-method"]
    ELSE [kind |-> "method", method |-> ms[Least(options)]]

Resolve(ts, ms, args, bad, options) ==
    IF bad # {}
    THEN [kind |-> "raise",
          exc |-> IF Len(ms[Least(bad)].param_matchers) # Len(args)
                  THEN "AssertionError" ELSE "AttributeError"]
    ELSE IF options = {}
    THEN [kind |-> "signal", condition_name |-> "no-matching-method"]
    ELSE IF Cardinality(options) = 1 \/ \A i \in options : method_lte(ts, ms[Least(options)], ms[i])
    THEN [kind |-> "method", method |-> ms[Least(options)]]
    ELSE [kind |-> "signal", condition_name |-> "ambiguous-method-resolution"]

\* MultiMethod.select_method: the method, the condition signaled
\* (SignalError) or the host exception raised.
select_method(ts, multimethod, args) ==
    Resolve(ts, multimethod.methods, args, Failing(ts, multimethod.methods, args),
            Options(ts, multimethod.methods, args))

(***************************************************************************)
(* Host-native handlers (src/builtin.py): handler(ctxt, *args), returning  *)
(* a Value or raising.  The result is the machine state (handle__set       *)
(* writes a Context) and the value.                                        *)
(***************************************************************************)
\* A walk that stops at once: the Context the handler was given.
DefiningContext_current(st, ctxt, slot) == ctxt

\* handle__set's walk: the innermost Context of the chain defining slot.
RECURSIVE DefiningContext(_, _, _)
DefiningContext(st, ctxt, slot) ==
    IF ctxt = 0 THEN 0
    ELSE IF slot \in DOMAIN st.ctxs[ctxt].slots THEN ctxt
    ELSE DefiningContext(st, st.ctxs[ctxt].base, slot)

handle__set(st, ctxt, slot, value) ==
    IF slot.t # "quote" \/ slot.body.e # "name"
    THEN [st |-> Raise(st, "ValueError"), result |-> None]
    ELSE LET c == DefiningContext(st, ctxt, slot.body.name)
         IN IF c = 0 THEN [st |-> Raise(st, "ValueError"), result |-> None]
            ELSE [st |-> [st EXCEPT !.ctxs[c].slots[slot.body.name] = value],
                  result |-> value]

\* The slot names of the dataclasses defined here.
SlotNames == {"a", "b", "c"}

\* receiver.type.slots.index(slot)
index(slots, slot) == Least({i \in 1..Len(slots) : slots[i] = slot})

\* handle_generic_dataclass_constructor's handler
handle_generic_dataclass_constructor(st, receiver, values) ==
    IF receiver.t # "type" \/ st.types[receiver.name].kind # "dataclass"
    THEN [st |-> Raise(st, "ValueError"), result |-> None]
    ELSE IF Len(values) # Len(st.types[receiver.name].slots)
    THEN [st |-> Raise(st, "AssertionError"), result |-> None]
    ELSE [st |-> [st EXCEPT !.instances = Append(@, DataclassValue(receiver.name, values))],
          result |-> DataclassRef(receiver.name, Len(st.instances) + 1)]

\* handle_generic_dataclass_get's handler
handle_generic_dataclass_get(st, slot, receiver) ==
    IF receiver.t # "dataclass" THEN [st |-> Raise(st, "ValueError"), result |-> None]
    ELSE LET slots == st.types[st.instances[receiver.id].type].slots
         IN IF ~Contains(slots, slot) THEN [st |-> Raise(st, "ValueError"), result |-> None]
            ELSE [st |-> st, result |-> st.instances[receiver.id].values[index(slots, slot)]]

\* A setter that adds the value to the instance instead of storing it in
\* the slot's place.
handle_generic_dataclass_set_appending(st, slot, receiver, value) ==
    IF receiver.t # "dataclass" THEN [st |-> Raise(st, "ValueError"), result |-> None]
    ELSE [st |-> [st EXCEPT !.instances[receiver.id].values = Append(@, value)],
          result |-> value]

\* A setter that stores the value in a copy of the instance and leaves the
\* receiver as it was.
handle_generic_dataclass_set_copying(st, slot, receiver, value) ==
    IF receiver.t # "dataclass" THEN [st |-> Raise(st, "ValueError"), result |-> None]
    ELSE LET slots == st.types[st.instances[receiver.id].type].slots
         IN IF ~Contains(slots, slot) THEN [st |-> Raise(st, "ValueError"), result |-> None]
            ELSE [st |-> [st EXCEPT !.instances = Append(@,
                              [st.instances[receiver.id] EXCEPT
                                  !.values[index(slots, slot)] = value])],
                  result |-> value]

\* handle_generic_dataclass_set's handler
handle_generic_dataclass_set(st, slot, receiver, value) ==
    IF receiver.t # "dataclass" THEN [st |-> Raise(st, "ValueError"), result |-> None]
    ELSE LET slots == st.types[st.instances[receiver.id].type].slots
         IN IF ~Contains(slots, slot) THEN [st |-> Raise(st, "ValueError"), result |-> None]
            ELSE [st |-> [st EXCEPT !.instances[receiver.id].values[index(slots, slot)] = value],
                  result |-> value]

NativeHandler(handler, st, ctxt, args) ==
    CASE handler = "generic_dataclass_constructor" ->
            handle_generic_dataclass_constructor(st, args[1], Tail(args))
      [] \E slot \in SlotNames : handler = "." \o slot ->
            handle_generic_dataclass_get(
                st, CHOOSE slot \in SlotNames : handler = "." \o slot, args[1])
      [] \E slot \in SlotNames : handler = ("set-" \o slot) \o ":" ->
            handle_generic_dataclass_set(
                st, CHOOSE slot \in SlotNames : handler = ("set-" \o slot) \o ":",
                args[1], args[2])
      [] handler = "-:" ->
            [st |-> st, result |-> NumberValue(args[1].value - args[2].value)]
      [] handler = "==:" ->
            [st |-> st, result |-> BoolValue(args[1] = args[2])]
      [] handler = "/:" ->
            IF args[2].value = 0
            THEN [st |-> Raise(st, "ZeroDivisionError"), result |-> None]
            ELSE [st |-> st, result |-> NumberValue(args[1].value \div args[2].value)]
      [] handler = "=:" -> handle__set(st, ctxt, args[1], args[2])
      [] handler = "print:" -> [st |-> st, result |-> NullValue]
      [] handler = "at:" ->
            IF args[1].t # "vector" \/ args[2].t # "number"
            THEN [st |-> Raise(st, "ValueError"), result |-> None]
            ELSE LET n == Len(args[1].components)
                     i == args[2].value
                 IN IF i >= n \/ i < 0 - n
                    THEN [st |-> Raise(st, "IndexError"), result |-> None]
                    ELSE [st |-> st,
                          result |-> args[1].components[(IF i < 0 THEN i + n ELSE i) + 1]]

(***************************************************************************)
(* eval_one_op, op invoke / tail-invoke: _do_invoke and signal_error.      *)
(* frame is the frame eval_one_op found on top of the stack.  st.signals   *)
(* and st.delivered are history: the conditions signaled during this step  *)
(* (with the frames and call stack as signal_error found them) and the     *)
(* arguments a handle-signal: method was dispatched on.                    *)
(***************************************************************************)
RECURSIVE do_invoke(_, _, _, _, _, _, _)
RECURSIVE signal_error(_, _, _, _, _)
RECURSIVE invoke_method(_, _, _, _, _, _, _)

\* A handler invocation that passes the (condition-name, message) pair alone,
\* the default receiver in place of the calling Context.
handle_signal_without_context(st, frame, condition_name, slot, tail_call) ==
    IF IsNone(slot) THEN Raise(st, "RunError")
    ELSE do_invoke(
            [st EXCEPT !.frames[frame].data_stack =
                @ \o <<st.frames[frame].default_receiver,
                       TupleValue(<<SymbolValue(condition_name),
                                    StringValue("error message")>>)>>],
            frame, "handle-signal:", slot, 2, TRUE, tail_call)

\* signal_error once the condition is known to be a first one and
\* handle-signal: was looked up.
handle_signal(st, frame, condition_name, slot, tail_call) ==
    IF IsNone(slot) THEN Raise(st, "RunError")
    ELSE do_invoke(
            [st EXCEPT !.frames[frame].data_stack =
                @ \o <<ContextRef(st.frames[frame].context),
                       TupleValue(<<SymbolValue(condition_name),
                                    StringValue("error message")>>)>>],
            frame, "handle-signal:", slot, 2, TRUE, tail_call)

record_signal(st, condition_name) ==
    [st EXCEPT !.signals = Append(@, [condition_name |-> condition_name,
                                      frames |-> st.frames, call_stack |-> st.call_stack])]

signal_error(st, frame, condition_name, already_signaled, tail_call) ==
    IF already_signaled THEN Raise(record_signal(st, condition_name), "RunError")
    ELSE handle_signal(record_signal(st, condition_name), frame, condition_name,
                       lookup(st, st.frames[frame].context, "handle-signal:"), tail_call)

\* What an intrinsic or native handler left: its state, or the
\* internal-error condition when it raised.
handler_outcome(s, frame, already_signaled, tail_call) ==
    IF Ok(s) THEN s
    ELSE signal_error([s EXCEPT !.exc = "none"], frame, "internal-error",
                      already_signaled, tail_call)

native_outcome(r, frame, already_signaled, tail_call) ==
    IF Ok(r.st)
    THEN [r.st EXCEPT !.frames[frame].data_stack = Append(@, r.result),
                      !.frames[frame].spot = @ + 1]
    ELSE signal_error([r.st EXCEPT !.exc = "none"], frame, "internal-error",
                      already_signaled, tail_call)

\* _do_invoke after the arguments were taken off the data stack: sel is
\* what select_method gave.
invoke_method(st, frame, message, args, sel, already_signaled, tail_call) ==
    CASE sel.kind = "signal" ->
            signal_error(st, frame, sel.condition_name, already_signaled, tail_call)
      [] sel.kind = "raise" -> Raise(st, sel.exc)
      [] sel.kind = "method" /\ sel.method.body.kind = "quote" ->
            IF Len(args) # Len(sel.method.body.param_names)
            THEN Raise(st, "AssertionError")
            ELSE invoke_compiled(
                    [st EXCEPT !.ctxs = Append(@,
                        Context(NewSlots(sel.method.body.param_names, args),
                                sel.method.body.context))],
                    message,
                    maybe_recompile(sel.method.body.body, sel.method.body.comp_ctxt),
                    Len(st.ctxs) + 1, NullValue, None, FALSE, None, tail_call)
      [] sel.kind = "method" /\ sel.method.body.kind = "intrinsic" ->
            handler_outcome(IntrinsicHandler(sel.method.body.handler, st, tail_call, args),
                            frame, already_signaled, tail_call)
      [] sel.kind = "method" /\ sel.method.body.kind = "native" ->
            native_outcome(NativeHandler(sel.method.body.handler, st,
                                         st.frames[frame].context, args),
                           frame, already_signaled, tail_call)

do_invoke(st, frame, message, slot, nargs, already_signaled, tail_call) ==
    IF slot.t # "multimethod"
    THEN [st EXCEPT !.frames[frame].data_stack = Append(DropLast(@, nargs), slot),
                    !.frames[frame].spot = @ + 1,
                    !.delivered = IF already_signaled
                                  THEN Append(@, TakeLast(st.frames[frame].data_stack, nargs))
                                  ELSE @]
    ELSE invoke_method(
            [st EXCEPT !.frames[frame].data_stack = DropLast(@, nargs),
                       !.delivered = IF already_signaled
                                     THEN Append(@, TakeLast(st.frames[frame].data_stack, nargs))
                                     ELSE @],
            frame, message, TakeLast(st.frames[frame].data_stack, nargs),
            select_method(st.types, slot, TakeLast(st.frames[frame].data_stack, nargs)),
            already_signaled, tail_call)

\* The invoke / tail-invoke branch of eval_one_op.
op_invoke(st, frame, message, nargs, tail_call) ==
    IF Len(st.frames[frame].data_stack) < nargs THEN Raise(st, "AssertionError")
    ELSE LET slot == lookup(st, st.frames[frame].context, message)
         IN IF IsNone(slot)
            THEN signal_error(st, frame, "undefined-slot", FALSE, tail_call)
            ELSE do_invoke(st, frame, message, slot, nargs, FALSE, tail_call)

\* The return branch of eval_one_op.
op_return(st, f) ==
    LET frame == st.frames[f]
    IN IF frame.is_cleanup /\ IsNone(frame.cleanup_retain) THEN Raise(st, "AssertionError")
       ELSE IF ~frame.is_cleanup /\ frame.data_stack = <<>> THEN Raise(st, "IndexError")
       ELSE LET return_value == IF frame.is_cleanup THEN frame.cleanup_retain
                                ELSE frame.data_stack[Len(frame.data_stack)]
                s1 == IF frame.is_cleanup THEN st
                      ELSE [st EXCEPT !.frames[f].data_stack = DropLast(@, 1)]
                s2 == PopFrame(s1)
            IN IF ~IsNone(frame.cleanup)
               THEN call_impl("call", s2, frame.cleanup, <<>>, None, TRUE, return_value, FALSE)
               ELSE IF s2.call_stack = <<>> THEN Raise(s2, "IndexError")
               ELSE IF s2.frames[TopId(s2)].is_cleanup
                       /\ IsNone(s2.frames[TopId(s2)].cleanup_retain)
               THEN Raise(s2, "AssertionError")
               ELSE PushData(s2, TopId(s2), return_value)

(***************************************************************************)
(* Bounds.                                                                 *)
(***************************************************************************)
\* Evaluation is cut off once this many CallFrame objects were created.
MaxFrames == 40
\* The counting loops run from 0 to MaxLoop iterations.
MaxLoop == 4

(***************************************************************************)
(* The global Context (src/builtin.py: global_context) and the programs.   *)
(***************************************************************************)
AnyM == ParameterAnyMatcher
Type(t) == ParameterTypeMatcher(t)
Num(n) == LiteralExpr(NumberValue(n))
Quote0(body) == QuoteExpr(<<>>, body)
Unary(target, message) == MessageExpr(target, message, <<>>)
Binary(target, message, arg) == MessageExpr(target, message, <<arg>>)
Seq2(a, b) == SequenceExpr(<<a, b>>)
IfThenElse(c, a, b) == MessageExpr(NoExpr, "if:then:else:", <<c, a, b>>)

\* The intrinsic_handlers table as registered by builtin.py's loop.
IntrinsicSlots ==
    [m \in {"if:then:else:", "call", "call:", "call*:", "call/cc", "cleanup:",
            "call/rc", "panic!:"} |->
        MultiMethod(m, <<Method(
            CASE m = "if:then:else:" -> <<AnyM, Type("Bool"), AnyM, AnyM>>
              [] m = "call" -> <<AnyM>>
              [] m = "call:" -> <<AnyM, AnyM>>
              [] m = "call*:" -> <<AnyM, Type("Tuple")>>
              [] m = "call/cc" -> <<AnyM>>
              [] m = "cleanup:" -> <<AnyM, Type("Quote")>>
              [] m = "call/rc" -> <<AnyM>>
              [] m = "panic!:" -> <<AnyM, AnyM>>,
            IntrinsicMethodBody(m))>>)]

\* builtin_binary_op / builtin_method registrations the programs use.
NativeSlots ==
    [m \in {"-:", "==:", "/:", "=:", "at:", "print:"} |->
        MultiMethod(m, <<Method(
            CASE m = "=:" -> <<Type("Quote"), AnyM>>
              [] m = "at:" -> <<Type("Vector"), Type("Number")>>
              [] m = "print:" -> <<AnyM, AnyM>>
              [] OTHER -> <<Type("Number"), Type("Number")>>,
            NativeMethodBody(m))>>)]

\* Methods defined in-language by earlier top-level statements
\* (method:does:, handle__method_does_).  1 is the global Context; 2 stands
\* for the defining statement's compiler.ctxt, which handle__method_does_
\* stores as the body's context: no slots of its own, the global Context
\* as its base.
\*   method: [n loop] does: [if: (n == 0) then: [0] else: [TAIL-CALL: ((n - 1) loop)]]
\*   method: [n tloop] does: [TAIL-CALL: (if: (n == 0) then: [0] else: [TAIL-CALL: ((n - 1) tloop)])]
\*   method: [n down] does: [TAIL-CALL: ((if: (n == 0) then: [[0]] else: [[TAIL-CALL: ((n - 1) down)]]) call)]
\*   method: [a amb: b] with matchers (Number, any) and (any, Number)
MethodNames == {"loop", "tloop", "down", "amb:"}

\* The global Context as a method body's compiler sees it.
GlobalNames ==
    CompilationContext({}, DOMAIN IntrinsicSlots \cup DOMAIN NativeSlots \cup MethodNames)

\* handle__method_does_: the method's QuoteMethodBody; body_comp_ctxt binds
\* the message itself (UndeterminedMethod) and then the parameters.
MethodBody(message, param_names, body) ==
    QuoteMethodBody(2, param_names, body,
                    [WithLocals(CompilationContext(GlobalNames.values \ {message},
                                                   GlobalNames.methods \cup {message}),
                                Names(param_names))
                        EXCEPT !.slots = @ \cup {message}])

LoopBody(self, tail_if) ==
    LET branch == IfThenElse(Binary(NameExpr("n"), "==:", Num(0)),
                             Quote0(Num(0)),
                             Quote0(TailCallExpr(Unary(Binary(NameExpr("n"), "-:", Num(1)), self))))
    IN IF tail_if THEN TailCallExpr(branch) ELSE branch

DownBody ==
    TailCallExpr(Unary(
        IfThenElse(Binary(NameExpr("n"), "==:", Num(0)),
                   Quote0(Quote0(Num(0))),
                   Quote0(Quote0(TailCallExpr(Unary(Binary(NameExpr("n"), "-:", Num(1)), "down"))))),
        "call"))

MethodSlots ==
    [m \in MethodNames |->
        CASE m = "loop" ->
                MultiMethod(m, <<Method(<<AnyM>>, MethodBody(m, <<"n">>, LoopBody("loop", FALSE)))>>)
          [] m = "tloop" ->
                MultiMethod(m, <<Method(<<AnyM>>, MethodBody(m, <<"n">>, LoopBody("tloop", TRUE)))>>)
          [] m = "down" ->
                MultiMethod(m, <<Method(<<AnyM>>, MethodBody(m, <<"n">>, DownBody))>>)
          [] m = "amb:" ->
                MultiMethod(m, <<Method(<<Type("Number"), AnyM>>, NativeMethodBody("-:")),
                                 Method(<<AnyM, Type("Number")>>, NativeMethodBody("-:"))>>)]

\* The ways handle-signal: can be bound in the global Context.
HandlerKinds == {"unbound", "value", "native", "native-faulty", "no-match",
                 "method", "method-faulty"}

HandlerSlot(kind) ==
    CASE kind = "value" -> NumberValue(7)
      [] kind = "native" ->
            MultiMethod("handle-signal:", <<Method(<<AnyM, AnyM>>, NativeMethodBody("print:"))>>)
      [] kind = "native-faulty" ->
            MultiMethod("handle-signal:", <<Method(<<AnyM, AnyM>>, NativeMethodBody("at:"))>>)
      [] kind = "no-match" ->
            MultiMethod("handle-signal:",
                        <<Method(<<AnyM, Type("Number")>>, NativeMethodBody("print:"))>>)
      \* method: [handle-signal: c] does: [9]
      [] kind = "method" ->
            MultiMethod("handle-signal:",
                <<Method(<<AnyM, AnyM>>,
                         MethodBody("handle-signal:", <<"self", "c">>, Num(9)))>>)
      \* method: [handle-signal: c] does: [1 / 0]
      [] kind = "method-faulty" ->
            MultiMethod("handle-signal:",
                <<Method(<<AnyM, AnyM>>,
                         MethodBody("handle-signal:", <<"self", "c">>,
                                    Binary(Num(1), "/:", Num(0))))>>)

Merge(f, g) == [x \in DOMAIN f \cup DOMAIN g |-> IF x \in DOMAIN f THEN f[x] ELSE g[x]]

(***************************************************************************)
(* Definitions at run time: types, mixins, dataclasses and methods.  A     *)
(* world is what they mutate in one interpreter process: the type objects, *)
(* the slots of the global Context, every CompiledBody created so far      *)
(* (bodies, by creation order) and each multimethod's                      *)
(* compilations_to_invalidate (deps, by message).                          *)
(***************************************************************************)
World(ts, slots, deps, bodies) ==
    [types |-> ts, slots |-> slots, deps |-> deps, bodies |-> bodies]

\* The container of a method's param_matchers: the intrinsic_handlers table
\* holds tuples, every other registration builds a list.
MatcherContainer(method) == IF method.body.kind = "intrinsic" THEN "tuple" ELSE "list"

\* method.param_matchers == existing.param_matchers
SameSignature(method, existing) ==
    /\ MatcherContainer(method) = MatcherContainer(existing)
    /\ method.param_matchers = existing.param_matchers

InsertAt(seq, i, x) == SubSeq(seq, 1, i - 1) \o <<x>> \o SubSeq(seq, i, Len(seq))

\* The sorting loop of add_method: the positions the new method may take,
\* and the positions where the assertion of method_lte fails.
Spots(ts, methods, method) ==
    {i \in 1..Len(methods) :
        /\ Len(methods[i].param_matchers) = Len(method.param_matchers)
        /\ method_lte(ts, method, methods[i])}

Unequal(methods, method) ==
    {i \in 1..Len(methods) : Len(methods[i].param_matchers) # Len(method.param_matchers)}

\* body.invalidate() for body in compilations_to_invalidate
Invalidate(bodies, ids) ==
    [b \in 1..Len(bodies) |->
        IF Contains(ids, b) THEN [bodies[b] EXCEPT !.bytecode = None] ELSE bodies[b]]

\* MultiMethod.add_method on the multimethod in slot message; exc is the
\* exception it raised.
add_method(w, message, method) ==
    LET methods == w.slots[message].methods
        spots == Spots(w.types, methods, method)
        added == IF spots = {} THEN Append(methods, method)
                 ELSE InsertAt(methods, Least(spots), method)
    IN IF \E i \in 1..Len(methods) : SameSignature(method, methods[i])
       THEN [exc |-> "ValueError", world |-> w]
       ELSE IF Unequal(methods, method) # {}
               /\ (spots = {} \/ Least(Unequal(methods, method)) < Least(spots))
       THEN [exc |-> "AssertionError", world |-> w]
       ELSE [exc |-> "none",
             world |-> [w EXCEPT !.slots[message].methods = added,
                                 !.bodies = Invalidate(@, w.deps[message])]]

create_or_add_method(w, slot, method) ==
    IF slot \in DOMAIN w.slots
    THEN IF w.slots[slot].t # "multimethod" THEN [exc |-> "ValueError", world |-> w]
         ELSE add_method(w, slot, method)
    ELSE add_method(
            [w EXCEPT !.slots = Merge([m \in {slot} |-> MultiMethod(slot, <<>>)], @),
                      !.deps = Merge([m \in {slot} |-> <<>>], @)],
            slot, method)

\* What CompilationContext.lookup finds from a method body's comp_ctxt: the
\* message being defined (UndeterminedMethod) and the parameters first,
\* then the slots of the global Context as they are now.
BodyCompilationContext(w, message, param_names) ==
    [WithLocals(
        CompilationContext(
            {n \in DOMAIN w.slots : w.slots[n].t # "multimethod"} \ {message},
            {n \in DOMAIN w.slots : w.slots[n].t = "multimethod"} \cup {message}),
        Names(param_names))
     EXCEPT !.slots = @ \cup {message}]

\* Compiler.multimethod_deps: the messages whose lookup gave a MultiMethod;
\* the message being defined is shadowed by its UndeterminedMethod.
multimethod_deps(code, message) ==
    {code[i].a : i \in {j \in 1..Len(code) : code[j].op \in {"invoke", "tail-invoke"}}}
        \ {message}

BytecodeSequence(code) == [t |-> "bytecode", code |-> code]

CompiledBody(message, param_names, body) ==
    [message |-> message, param_names |-> param_names, body |-> body, bytecode |-> None]

\* CompiledBody.maybe_recompile for body b: compile if there is no
\* bytecode, and join compilations_to_invalidate of every dependency.
maybe_recompile_body(w, b) ==
    LET cb == w.bodies[b]
        compiled == CompileExpr(cb.body, FALSE,
                                BodyCompilationContext(w, cb.message, cb.param_names))
        needed == multimethod_deps(compiled.code, cb.message)
    IN IF ~IsNone(cb.bytecode) THEN [exc |-> "none", world |-> w]
       ELSE IF ~compiled.ok THEN [exc |-> "ValueError", world |-> w]
       ELSE [exc |-> "none",
             world |-> [w EXCEPT !.bodies[b].bytecode = BytecodeSequence(compiled.code),
                                 !.deps = [m \in DOMAIN w.deps |->
                                     IF m \in needed /\ ~Contains(w.deps[m], b)
                                     THEN Append(w.deps[m], b) ELSE w.deps[m]]]]

\* CompiledBody(...): __post_init__ compiles at once.  A failed compilation
\* leaves no object behind.
new_compiled_body(w, message, param_names, body) ==
    LET made == maybe_recompile_body(
                    [w EXCEPT !.bodies = Append(@, CompiledBody(message, param_names, body))],
                    Len(w.bodies) + 1)
    IN IF made.exc = "none" THEN made ELSE [exc |-> made.exc, world |-> w]

\* handle__method_does_ for a unary declaration [(x: type) message] or
\* [x message]: the matcher's type expression is evaluated first, then the
\* body is compiled, then the method is added.
handle__method_does_(w, message, matcher, body) ==
    LET made == new_compiled_body(w, message, <<"x">>, body)
        method == Method(<<matcher>>,
                         Merge([f \in {"compiled_body"} |-> Len(made.world.bodies)],
                               QuoteMethodBody(2, <<"x">>, body,
                                   CompilationContext(Names(<<"x">>), {message}))))
    IN IF matcher.k = "type" /\ matcher.param_type \notin DOMAIN w.slots
       THEN [exc |-> "ValueError", world |-> w]
       ELSE IF made.exc # "none" THEN [exc |-> made.exc, world |-> w]
       ELSE create_or_add_method(made.world, message, method)

\* handle__mixin_
handle__mixin_(w, mixin_name) ==
    LET made == post_init(w.types, mixin_name, "mixin", <<>>, FALSE)
    IN IF mixin_name \in DOMAIN w.slots THEN [exc |-> "ValueError", world |-> w]
       ELSE [exc |-> "none",
             world |-> [w EXCEPT !.types = made.types,
                                 !.slots = Merge([n \in {mixin_name} |-> TypeValue(mixin_name)], @)]]

\* handle__mix_in_to_
handle__mix_in_to_(w, mixin, type) ==
    LET set == try_set_bases(w.types, type, Append(w.types[type].bases, mixin))
    IN IF w.types[mixin].kind # "mixin" THEN [exc |-> "ValueError", world |-> w]
       ELSE [exc |-> IF set.ok THEN "none" ELSE "ValueError",
             world |-> [w EXCEPT !.types = set.types]]

\* "".join(slot + ":" for slot in slots) if slots else "new"
RECURSIVE joined(_)
joined(slots) == IF slots = <<>> THEN "" ELSE (slots[1] \o ":") \o joined(Tail(slots))

ctor_message(slots) == IF slots = <<>> THEN "new" ELSE joined(slots)

\* create_or_add_method in the course of a definition: r is the outcome so
\* far; an exception that was raised has ended the definition.
register(r, slot, method) ==
    IF r.exc # "none" THEN r ELSE create_or_add_method(r.world, slot, method)

\* The loop of define_dataclass over the cumulative slots from the i-th
\* on: a getter and a setter each.
RECURSIVE define_accessors(_, _, _, _)
define_accessors(r, class_name, slots, i) ==
    IF i > Len(slots) THEN r
    ELSE define_accessors(
            register(
                register(r, "." \o slots[i],
                         Method(<<ParameterTypeMatcher(class_name)>>,
                                NativeMethodBody("." \o slots[i]))),
                ("set-" \o slots[i]) \o ":",
                Method(<<ParameterTypeMatcher(class_name), ParameterAnyMatcher>>,
                       NativeMethodBody(("set-" \o slots[i]) \o ":"))),
            class_name, slots, i + 1)

\* DataclassTypeValue.__init__: a TypeValue with its cumulative slots.
DataclassTypeObject(type, slots) ==
    [f \in DOMAIN type \cup {"slots"} |-> IF f = "slots" THEN slots ELSE type[f]]

\* slots = (base_dataclass.slots if base_dataclass else []) + own
cumulative(ts, extends, own) ==
    LET dataclasses == {i \in 1..Len(extends) : ts[extends[i]].kind = "dataclass"}
    IN IF dataclasses = {} THEN own ELSE ts[extends[Least(dataclasses)]].slots \o own

\* define_dataclass once its checks have passed: the class in its slot, its
\* predicate method, its constructor and the getter and setter of every
\* slot, inherited ones first.
define_members(w, class_name, slots, types) ==
    define_accessors(
        register(
            register([exc |-> "none",
                      world |-> [w EXCEPT
                          !.types = [types EXCEPT
                                        ![class_name] = DataclassTypeObject(@, slots)],
                          !.slots = Merge([n \in {class_name} |-> TypeValue(class_name)], @)]],
                     class_name \o "?",
                     Method(<<ParameterAnyMatcher>>, NativeMethodBody("is-type"))),
            ctor_message(slots),
            Method(<<ParameterValueMatcher(TypeValue(class_name))>>
                       \o [i \in 1..Len(slots) |-> ParameterAnyMatcher],
                   NativeMethodBody("generic_dataclass_constructor"))),
        class_name, slots, 1)

\* define_dataclass
define_dataclass(w, class_name, extends, own) ==
    LET made == post_init(w.types, class_name, "dataclass", extends, FALSE)
    IN IF \E i \in 1..Len(extends) : w.types[extends[i]].sealed
       THEN [exc |-> "ValueError", world |-> w]
       ELSE IF Cardinality({i \in 1..Len(extends) :
                               w.types[extends[i]].kind = "dataclass"}) > 1
       THEN [exc |-> "ValueError", world |-> w]
       ELSE IF class_name \in DOMAIN w.slots THEN [exc |-> "ValueError", world |-> w]
       ELSE IF ~made.ok THEN [exc |-> "ValueError", world |-> w]
       ELSE define_members(w, class_name, cumulative(w.types, extends, own), made.types)

\* The messages a compiled body sends, in order.
Sends(code) == {i \in 1..Len(code) : code[i].op \in {"invoke", "tail-invoke"}}

\* _do_invoke of a unary message on arg and the evaluation it starts: the
\* method is selected; a quote method body is recompiled if need be and
\* run, which sends the body's own message, if it has one, to the same
\* argument.  Native and intrinsic handlers return for the arguments used
\* here (call on a value that is not callable gives the value).  end is how
\* the evaluation ended, ran the compiled bodies that were run; an
\* evaluation deeper than depth sends is cut off.
RECURSIVE invoke_unary(_, _, _, _)
invoke_unary(w, message, arg, depth) ==
    LET selection == select_method(w.types, w.slots[message], <<arg>>)
        b == selection.method.body.compiled_body
        recompiled == maybe_recompile_body(w, b)
        code == recompiled.world.bodies[b].bytecode.code
    IN IF selection.kind = "signal"
       THEN [world |-> w, end |-> selection.condition_name, ran |-> <<>>]
       ELSE IF selection.kind = "raise" THEN [world |-> w, end |-> selection.exc, ran |-> <<>>]
       ELSE IF selection.method.body.kind # "quote"
       THEN [world |-> w, end |-> "returned", ran |-> <<>>]
       ELSE IF recompiled.exc # "none"
       THEN [world |-> w, end |-> recompiled.exc, ran |-> <<>>]
       ELSE IF Sends(code) = {}
       THEN [world |-> recompiled.world, end |-> "returned", ran |-> <<b>>]
       ELSE IF depth = 0 THEN [world |-> recompiled.world, end |-> "cut off", ran |-> <<b>>]
       ELSE LET inner == invoke_unary(recompiled.world, code[Least(Sends(code))].a, arg,
                                      depth - 1)
            IN [inner EXCEPT !.ran = <<b>> \o @]

\* The global Context and the types after builtin.py was imported, as far
\* as the unary messages used here go.
BuiltinWorld ==
    World(BuiltinTypes,
          [m \in {"call", "print"} \cup BuiltinTypeNames |->
              IF m = "call" THEN IntrinsicSlots["call"]
              ELSE IF m = "print"
              THEN MultiMethod("print", <<Method(<<ParameterAnyMatcher>>,
                                                 NativeMethodBody("print"))>>)
              ELSE TypeValue(m)],
          [m \in {"call", "print"} |-> <<>>],
          <<>>)

\* The global Context and the types after
\*     data: :x has: {:a; :b}
\*     data: :y extends: {x} has: {:c}
XWorld == define_dataclass(BuiltinWorld, "x", <<>>, <<"a", "b">>).world

DataWorld == define_dataclass(XWorld, "y", <<"x">>, <<"c">>).world

\* What the two definitions added to the global Context.
DataSlots == [n \in DOMAIN DataWorld.slots \ DOMAIN BuiltinWorld.slots |-> DataWorld.slots[n]]

\* What an earlier top-level statement,  let: t =: 1,  left in the global
\* Context.
LetSlots == [n \in {"t"} |-> NumberValue(1)]

\* The global Context eval_toplevel is given.
GlobalSlots(kind) ==
    LET base == Merge(IntrinsicSlots,
                      Merge(NativeSlots, Merge(MethodSlots, Merge(DataSlots, LetSlots))))
    IN IF kind = "unbound" THEN base
       ELSE Merge([m \in {"handle-signal:"} |-> HandlerSlot(kind)], base)

\* CompilationContext(slots={}, base=context) of eval_toplevel: what the
\* compiler's lookup finds in the global Context.
GlobalCompilationContext(kind) ==
    CompilationContext({n \in DOMAIN DataSlots : DataSlots[n].t # "multimethod"}
                           \cup DOMAIN LetSlots
                           \cup (IF kind = "value" THEN {"handle-signal:"} ELSE {}),
                       GlobalNames.methods
                           \cup {n \in DOMAIN DataSlots : DataSlots[n].t = "multimethod"}
                           \cup (IF kind \in {"unbound", "value"} THEN {} ELSE {"handle-signal:"}))

\* The interpreter processes compared with each other.
Runs == {1, 2}

NoOutcome ==
    [op |-> "none", run |-> 0, exc |-> "none", before |-> BuiltinWorld, message |-> "",
     arg |-> None, signaled |-> "none", end |-> "none", selected |-> None, ran |-> <<>>]

(***************************************************************************)
(* Programs: the top-level expressions eval_toplevel is given.  Each is    *)
(* written in katsu in the comment above it.                               *)
(***************************************************************************)
Quote1(p, body) == QuoteExpr(<<p>>, body)
Name(n) == NameExpr(n)
Cleanup(protected, action) == Binary(protected, "cleanup:", action)
Call(target) == Unary(target, "call")
CallWith(target, arg) == Binary(target, "call:", arg)
Panic(v) == MessageExpr(NoExpr, "panic!:", <<v>>)
Identity == Quote1("x", Name("x"))
Program(name, n, expr) == [name |-> name, n |-> n, expr |-> expr]

CleanupPrograms == {
    \* [1] cleanup: [2]
    Program("cleanup-normal", 0, Cleanup(Quote0(Num(1)), Quote0(Num(2)))),
    \* TAIL-CALL: ([1] cleanup: [2])
    Program("cleanup-tail", 0, TailCallExpr(Cleanup(Quote0(Num(1)), Quote0(Num(2))))),
    \* 1 cleanup: [2]
    Program("cleanup-noncallable", 0, Cleanup(Num(1), Quote0(Num(2)))),
    \* [1] cleanup: \x [2]
    Program("cleanup-param", 0, Cleanup(Quote0(Num(1)), Quote1("x", Num(2)))),
    \* \x [x] call: (\rc [[rc call: 1] cleanup: [2]] call/rc)
    Program("cleanup-rc", 0,
        CallWith(Identity,
            Unary(Quote1("rc", Cleanup(Quote0(CallWith(Name("rc"), Num(1))), Quote0(Num(2)))),
                  "call/rc"))),
    \* \x [x] call: (\rc [[[rc call: 1] cleanup: [2]] cleanup: [3]] call/rc)
    Program("cleanup-nested-rc", 0,
        CallWith(Identity,
            Unary(Quote1("rc",
                    Cleanup(Quote0(Cleanup(Quote0(CallWith(Name("rc"), Num(1))), Quote0(Num(2)))),
                            Quote0(Num(3)))),
                  "call/rc"))),
    \* \x [x] call: (\rc [[[rc call: 1] cleanup: \x [2]] cleanup: [3]] call/rc)
    Program("cleanup-param-rc", 0,
        CallWith(Identity,
            Unary(Quote1("rc",
                    Cleanup(Quote0(Cleanup(Quote0(CallWith(Name("rc"), Num(1))),
                                           Quote1("x", Num(2)))),
                            Quote0(Num(3)))),
                  "call/rc"))),
    \* [panic!: 1] cleanup: [2]
    Program("cleanup-panic", 0, Cleanup(Quote0(Panic(Num(1))), Quote0(Num(2)))),
    \* [[panic!: 1] cleanup: [2]] cleanup: [3]
    Program("cleanup-nested-panic", 0,
        Cleanup(Quote0(Cleanup(Quote0(Panic(Num(1))), Quote0(Num(2)))), Quote0(Num(3)))),
    \* [[panic!: 1] cleanup: \x [2]] cleanup: [3]
    Program("cleanup-param-panic", 0,
        Cleanup(Quote0(Cleanup(Quote0(Panic(Num(1))), Quote1("x", Num(2)))), Quote0(Num(3)))),
    \* [1] cleanup: [panic!: 2]
    Program("panic-in-cleanup", 0, Cleanup(Quote0(Num(1)), Quote0(Panic(Num(2))))),
    \* \x [x] call: (\rc [([1] cleanup: [rc call: 2]); 3] call/rc)
    Program("rc-in-cleanup", 0,
        CallWith(Identity,
            Unary(Quote1("rc",
                    Seq2(Cleanup(Quote0(Num(1)), Quote0(CallWith(Name("rc"), Num(2)))), Num(3))),
                  "call/rc"))),
    \* \x [x] call: (\rc [[rc call: 1] cleanup: [[2] cleanup: [3]]] call/rc)
    Program("cleanup-in-cleanup", 0,
        CallWith(Identity,
            Unary(Quote1("rc",
                    Cleanup(Quote0(CallWith(Name("rc"), Num(1))),
                            Quote0(Cleanup(Quote0(Num(2)), Quote0(Num(3)))))),
                  "call/rc")))
}

EscapePrograms == {
    \* panic!: 1
    Program("panic", 0, Panic(Num(1))),
    \* \x [x] call: ([[panic!: 1] call; 2] call)
    Program("panic-nested", 0,
        CallWith(Identity, Call(Quote0(Seq2(Call(Quote0(Panic(Num(1)))), Num(2)))))),
    \* \x [x] call: (\rc [(rc call: 1); 2] call/rc)
    Program("rc-escape", 0,
        CallWith(Identity,
            Unary(Quote1("rc", Seq2(CallWith(Name("rc"), Num(1)), Num(2))), "call/rc"))),
    \* \x [x] call: (\rc [[[rc call: 1] call; 2] call; 3] call/rc)
    Program("rc-escape-deep", 0,
        CallWith(Identity,
            Unary(Quote1("rc",
                    Seq2(Call(Quote0(Seq2(Call(Quote0(CallWith(Name("rc"), Num(1)))), Num(2)))),
                         Num(3))),
                  "call/rc"))),
    \* \rc [1] call/rc
    Program("rc-unused", 0, Unary(Quote1("rc", Num(1)), "call/rc")),
    \* (\rc [rc] call/rc) call: 1
    Program("rc-stale-top", 0,
        CallWith(Unary(Quote1("rc", Name("rc")), "call/rc"), Num(1))),
    \* ([\rc [rc] call/rc] call) call: 1
    Program("rc-stale-returned", 0,
        CallWith(Call(Quote0(Unary(Quote1("rc", Name("rc")), "call/rc"))), Num(1))),
    \* \x [x] call: ([[\rc [rc] call/rc] call) call: 1] call)
    Program("rc-stale-returned-deep", 0,
        CallWith(Identity,
            Call(Quote0(CallWith(Call(Quote0(Unary(Quote1("rc", Name("rc")), "call/rc"))),
                                 Num(1)))))),
    \* let: g =: 0;
    \* \rc [\v [if: (v == 1) then: [g call: 2] else: [[rc call: 3] call]]
    \*           call: (\k [([g] =: k); 1] call/cc)] call/rc
    Program("rc-replaced", 0,
        Seq2(LetExpr("g", Num(0)),
            Unary(Quote1("rc",
                CallWith(
                    Quote1("v",
                        IfThenElse(Binary(Name("v"), "==:", Num(1)),
                                   Quote0(CallWith(Name("g"), Num(2))),
                                   Quote0(Call(Quote0(CallWith(Name("rc"), Num(3))))))),
                    Unary(Quote1("k", Seq2(Binary(Quote0(Name("g")), "=:", Name("k")), Num(1))),
                          "call/cc"))),
              "call/rc")))
}

ContinuationPrograms == {
    \* let: g =: 0;
    \* \r [if: (r == 1) then: [r] else: [g call: (r - 1)]] call: (\k [([g] =: k); 3] call/cc)
    Program("cc-multishot", 0,
        Seq2(LetExpr("g", Num(0)),
            CallWith(
                Quote1("r",
                    IfThenElse(Binary(Name("r"), "==:", Num(1)),
                               Quote0(Name("r")),
                               Quote0(CallWith(Name("g"), Binary(Name("r"), "-:", Num(1)))))),
                Unary(Quote1("k", Seq2(Binary(Quote0(Name("g")), "=:", Name("k")), Num(3))),
                      "call/cc")))),
    \* let: g =: 0;
    \* \r [if: (r == 1) then: [r] else: [g call: (r - 1)]]
    \*     call: ([\k [([g] =: k); 2] call/cc] call)
    Program("cc-multishot-nested", 0,
        Seq2(LetExpr("g", Num(0)),
            CallWith(
                Quote1("r",
                    IfThenElse(Binary(Name("r"), "==:", Num(1)),
                               Quote0(Name("r")),
                               Quote0(CallWith(Name("g"), Binary(Name("r"), "-:", Num(1)))))),
                Call(Quote0(
                    Unary(Quote1("k", Seq2(Binary(Quote0(Name("g")), "=:", Name("k")), Num(2))),
                          "call/cc")))))),
    \* \k [k call: 1] call/cc
    Program("cc-escape", 0, Unary(Quote1("k", CallWith(Name("k"), Num(1))), "call/cc"))
}

TailPrograms ==
    {Program(m, n, Unary(Num(n), m)) : m \in {"loop", "tloop", "down"}, n \in 0..MaxLoop}
    \cup {
    \* (TAIL-CALL: ([1] call)); 2
    Program("tail-not-last", 0, Seq2(TailCallExpr(Call(Quote0(Num(1)))), Num(2))),
    \* [1] cleanup: [TAIL-CALL: ([2] call)]
    Program("tail-in-cleanup", 0,
        Cleanup(Quote0(Num(1)), Quote0(TailCallExpr(Call(Quote0(Num(2))))))),
    \* [TAIL-CALL: ([1] call)] cleanup: [2]
    Program("tail-with-cleanup", 0,
        Cleanup(Quote0(TailCallExpr(Call(Quote0(Num(1))))), Quote0(Num(2)))),
    \* [(\rc [1] call/rc); TAIL-CALL: ([2] call)] call
    Program("tail-with-rc", 0,
        Call(Quote0(Seq2(Unary(Quote1("rc", Num(1)), "call/rc"),
                         TailCallExpr(Call(Quote0(Num(2)))))))),
    \* \x [x] call: ([TAIL-CALL: (\rc [1] call/rc)] call)
    Program("tail-call/rc", 0,
        CallWith(Identity, Call(Quote0(TailCallExpr(Unary(Quote1("rc", Num(1)), "call/rc")))))),
    \* \x [x] call: ([TAIL-CALL: (if: (1 == 1) then: [1] else: [2])] call)
    Program("tail-if", 0,
        CallWith(Identity,
            Call(Quote0(TailCallExpr(IfThenElse(Binary(Num(1), "==:", Num(1)),
                                                Quote0(Num(1)), Quote0(Num(2)))))))),
    \* \x [x] call: ([TAIL-CALL: ([1] call)] call)
    Program("tail-quote", 0,
        CallWith(Identity, Call(Quote0(TailCallExpr(Call(Quote0(Num(1)))))))),
    \* TAIL-CALL: ([1] call)
    Program("tail-toplevel", 0, TailCallExpr(Call(Quote0(Num(1))))),
    \* \x [x] call: ([TAIL-CALL: (2 - 1)] call)
    Program("tail-native", 0,
        CallWith(Identity, Call(Quote0(TailCallExpr(Binary(Num(2), "-:", Num(1)))))))
    }

SignalPrograms == {
    \* 1 missing
    Program("compile-unknown", 0, Unary(Num(1), "missing")),
    \* [1] call: (\x [x y])
    Program("compile-local-args", 0,
        CallWith(Quote0(Num(1)), Quote1("x", Unary(Name("x"), "y")))),
    \* \x [x] call: (1 cleanup: 2)
    Program("sig-no-match", 0, CallWith(Identity, Cleanup(Num(1), Num(2)))),
    \* \x [x] call: (1 amb: 2)
    Program("sig-ambiguous", 0, CallWith(Identity, Binary(Num(1), "amb:", Num(2)))),
    \* \x [x] call: (1 / 0)
    Program("sig-native", 0, CallWith(Identity, Binary(Num(1), "/:", Num(0)))),
    \* \x [x] call: (\a b [a] call: 1)
    Program("sig-intrinsic", 0,
        CallWith(Identity, CallWith(QuoteExpr(<<"a", "b">>, Name("a")), Num(1)))),
    \* \x [x] call: (\a b [a] call/rc)
    Program("sig-call-rc", 0,
        CallWith(Identity, Unary(QuoteExpr(<<"a", "b">>, Name("a")), "call/rc"))),
    \* \x [x] call: ([TAIL-CALL: (1 / 0)] call)
    Program("sig-tail", 0,
        CallWith(Identity, Call(Quote0(TailCallExpr(Binary(Num(1), "/:", Num(0))))))),
    \* (1 / 0); (4 / 0)
    Program("sig-twice", 0, Seq2(Binary(Num(1), "/:", Num(0)), Binary(Num(4), "/:", Num(0)))),
    \* [1 / 0] cleanup: [2]
    Program("sig-protected", 0,
        Cleanup(Quote0(Binary(Num(1), "/:", Num(0))), Quote0(Num(2))))
}

DataPrograms == {
    \* {1; 2} at: (3 - 2)
    Program("vector", 0,
        Binary(DataExpr(<<Num(1), Num(2)>>), "at:", Binary(Num(3), "-:", Num(2)))),
    \* \a b [b] call*: (1, 4 / 2)
    Program("tuple", 0,
        Binary(QuoteExpr(<<"a", "b">>, Name("b")), "call*:",
               TupleExpr(<<Num(1), Binary(Num(4), "/:", Num(2))>>))),
    \* [it] call: 5
    Program("default-receiver", 0, CallWith(Quote0(Name("it")), Num(5)))
}

\* x a: a b: b
NewX(a, b) == MessageExpr(Name("x"), "a:b:", <<Num(a), Num(b)>>)
\* y a: a b: b c: c
NewY(a, b, c) == MessageExpr(Name("y"), "a:b:c:", <<Num(a), Num(b), Num(c)>>)

\* The values a program's setter is given.
SetValues == {5, 6}

\* Run in the global Context after
\*     data: :x has: {:a; :b}
\*     data: :y extends: {x} has: {:c}
DataclassPrograms ==
    {\* (x a: 1 b: 2) .b
     Program("get", 0, Unary(NewX(1, 2), ".b")),
     \* (y a: 1 b: 2 c: 3) .a
     Program("get-inherited", 0, Unary(NewY(1, 2, 3), ".a")),
     \* y a: 1 b: 2
     Program("new-short", 0, MessageExpr(Name("y"), "a:b:", <<Num(1), Num(2)>>)),
     \* (x a: 1 b: 2) .c
     Program("get-missing", 0, Unary(NewX(1, 2), ".c"))}
    \cup {\* let: p =: (x a: 1 b: 2); p set-a: n; p .a
          Program("set-get", n,
              SequenceExpr(<<LetExpr("p", NewX(1, 2)),
                             Binary(Name("p"), "set-a:", Num(n)),
                             Unary(Name("p"), ".a")>>)) : n \in SetValues}
    \cup {\* let: p =: (x a: 1 b: 2); p set-a: n; p .b
          Program("set-other", n,
              SequenceExpr(<<LetExpr("p", NewX(1, 2)),
                             Binary(Name("p"), "set-a:", Num(n)),
                             Unary(Name("p"), ".b")>>)) : n \in SetValues}
    \cup {\* let: p =: (x a: 1 b: 2); let: q =: p; q set-b: n; p .b
          Program("alias", n,
              SequenceExpr(<<LetExpr("p", NewX(1, 2)),
                             LetExpr("q", Name("p")),
                             Binary(Name("q"), "set-b:", Num(n)),
                             Unary(Name("p"), ".b")>>)) : n \in SetValues}
    \cup {\* let: p =: (x a: 1 b: 2); let: r =: (y a: 1 b: 2 c: 3);
          \* r set-a: n; r set-c: n; r set-c: 9; (p .a) - (r .c)
          Program("two", n,
              SequenceExpr(<<LetExpr("p", NewX(1, 2)),
                             LetExpr("r", NewY(1, 2, 3)),
                             Binary(Name("r"), "set-a:", Num(n)),
                             Binary(Name("r"), "set-c:", Num(n)),
                             Binary(Name("r"), "set-c:", Num(9)),
                             Binary(Unary(Name("p"), ".a"), "-:", Unary(Name("r"), ".c"))>>)) :
          n \in SetValues}

\* [name] =: n
Assign(name, n) == Binary(Quote0(Name(name)), "=:", Num(n))

\* 1 == 1
True == Binary(Num(1), "==:", Num(1))

\* Assignments and definitions of locals; t is bound in the global Context.
ScopePrograms ==
    UNION {{
     \* [let: k =: 1; ([let: k =: 3; [k] =: n; k] call) - k] call
     Program("assign-nearest", n,
         Call(Quote0(Seq2(LetExpr("k", Num(1)),
             Binary(Call(Quote0(SequenceExpr(<<LetExpr("k", Num(3)), Assign("k", n),
                                               Name("k")>>))),
                    "-:", Name("k")))))),
     \* [let: k =: 1; ([[k] =: n; let: k =: 3; k] call) - k] call
     Program("assign-outer", n,
         Call(Quote0(Seq2(LetExpr("k", Num(1)),
             Binary(Call(Quote0(SequenceExpr(<<Assign("k", n), LetExpr("k", Num(3)),
                                               Name("k")>>))),
                    "-:", Name("k")))))),
     \* [let: k =: 1; [let: j =: 2; [[k] =: n; j - k] call] call] call
     Program("assign-skips", n,
         Call(Quote0(Seq2(LetExpr("k", Num(1)),
             Call(Quote0(Seq2(LetExpr("j", Num(2)),
                 Call(Quote0(Seq2(Assign("k", n),
                                  Binary(Name("j"), "-:", Name("k")))))))))))),
     \* [[t] =: n; t] call
     Program("assign-global", n, Call(Quote0(Seq2(Assign("t", n), Name("t"))))),
     \* [let: k =: 1; (\zz [zz]) =: n; k] call
     Program("assign-undefined", n,
         Call(Quote0(SequenceExpr(<<LetExpr("k", Num(1)),
                                    Binary(Quote1("zz", Name("zz")), "=:", Num(n)),
                                    Name("k")>>)))),
     \* [let: c =: 1; let: c =: n; c] call
     Program("let-twice", n,
         Call(Quote0(SequenceExpr(<<LetExpr("c", Num(1)), LetExpr("c", Num(n)),
                                    Name("c")>>)))),
     \* let: t =: n
     Program("let-toplevel", n, LetExpr("t", Num(n))),
     \* [let: h =: 1; if: 1 == 1 then: [let: h =: n; h] else: [3]] call
     Program("let-branch", n,
         Call(Quote0(Seq2(LetExpr("h", Num(1)),
             IfThenElse(True, Quote0(Seq2(LetExpr("h", Num(n)), Name("h"))),
                        Quote0(Num(3))))))),
     \* [if: 1 == 1 then: [let: g =: 1; g] else: [2]; let: g =: n; g] call
     Program("let-after-branch", n,
         Call(Quote0(SequenceExpr(<<
             IfThenElse(True, Quote0(Seq2(LetExpr("g", Num(1)), Name("g"))), Quote0(Num(2))),
             LetExpr("g", Num(n)), Name("g")>>)))),
     \* [let: t =: n; t] call - t
     Program("let-shadow", n,
         Binary(Call(Quote0(Seq2(LetExpr("t", Num(n)), Name("t")))), "-:", Name("t")))
    } : n \in SetValues}

\* Quotes whose body names what is not bound where the quote is lowered.
ForwardPrograms ==
    UNION {{
     \* [let: f =: [nope]; n] call
     Program("quote-unused", n,
         Call(Quote0(Seq2(LetExpr("f", Quote0(Name("nope"))), Num(n))))),
     \* [let: f =: [later]; let: later =: n; f call] call
     Program("quote-forward", n,
         Call(Quote0(SequenceExpr(<<LetExpr("f", Quote0(Name("later"))),
                                    LetExpr("later", Num(n)),
                                    Call(Name("f"))>>)))),
     \* [let: later =: n; let: f =: [later]; f call] call
     Program("quote-backward", n,
         Call(Quote0(SequenceExpr(<<LetExpr("later", Num(n)),
                                    LetExpr("f", Quote0(Name("later"))),
                                    Call(Name("f"))>>))))
    } : n \in SetValues}

\* \k [k call: v] call/cc
ResumeWith(v) == Unary(Quote1("k", CallWith(Name("k"), v)), "call/cc")

\* One call/cc whose Continuation is invoked once, with a value of each
\* kind.
ResumePrograms ==
    UNION {{
     \* \k [k call: n] call/cc
     Program("resume-number", n, ResumeWith(Num(n))),
     \* \k [k call: [n]] call/cc
     Program("resume-quote", n, ResumeWith(Quote0(Num(n)))),
     \* \k [k call: k] call/cc
     Program("resume-continuation", n, ResumeWith(Name("k"))),
     \* \rc [\k [k call: rc] call/cc] call/rc
     Program("resume-return-continuation", n,
         Unary(Quote1("rc", ResumeWith(Name("rc"))), "call/rc"))
    } : n \in SetValues}

\* A protected quote left through a continuation captured outside it; the
\* cleanup action assigns the global t.
DiscardPrograms ==
    UNION {{
     \* [\k [([k call: 1] cleanup: [[t] =: n]); 2] call/cc; t] call
     Program("cc-discards-cleanup", n,
         Call(Quote0(Seq2(
             Unary(Quote1("k", Seq2(Cleanup(Quote0(CallWith(Name("k"), Num(1))),
                                            Quote0(Assign("t", n))),
                                    Num(2))),
                   "call/cc"),
             Name("t"))))),
     \* [\rc [([rc call: 1] cleanup: [[t] =: n]); 2] call/rc; t] call
     Program("rc-runs-cleanup", n,
         Call(Quote0(Seq2(
             Unary(Quote1("rc", Seq2(Cleanup(Quote0(CallWith(Name("rc"), Num(1))),
                                             Quote0(Assign("t", n))),
                                     Num(2))),
                   "call/rc"),
             Name("t")))))
    } : n \in SetValues}

\* A Continuation captured, and invoked, inside a cleanup action that runs
\* while the frames below it are being unwound.
SnapshotPrograms == {
    \* [panic!: 1] cleanup: [\k [2] call/cc]
    Program("cc-in-cleanup", 0,
        Cleanup(Quote0(Panic(Num(1))), Quote0(Unary(Quote1("k", Num(2)), "call/cc")))),
    \* [panic!: 1] cleanup: [\k [k call: 3] call/cc]
    Program("cc-resume-in-cleanup", 0,
        Cleanup(Quote0(Panic(Num(1))), Quote0(ResumeWith(Num(3)))))
}

\* Sequences and operands with a compile-time form among their parts.
SequencePrograms == {
    \* method: [x foo] does: [1]
    Program("method-alone", 0, MethodExpr("x", "foo", Num(1))),
    \* (method: [x foo] does: [1]; 2)
    Program("method-then-value", 0, Seq2(MethodExpr("x", "foo", Num(1)), Num(2))),
    \* (1; method: [x foo] does: [1])
    Program("value-then-method", 0, Seq2(Num(1), MethodExpr("x", "foo", Num(1)))),
    \* 1 - (method: [x foo] does: [1])
    Program("method-operand", 0, Binary(Num(1), "-:", MethodExpr("x", "foo", Num(1)))),
    \* (let: q =: 1; 2)
    Program("let-then-value", 0, Seq2(LetExpr("q", Num(1)), Num(2))),
    \* (1; let: q =: 5)
    Program("value-then-let", 0, Seq2(Num(1), LetExpr("q", Num(5)))),
    \* (1; 2; 3)
    Program("values", 0, SequenceExpr(<<Num(1), Num(2), Num(3)>>))
}

Programs ==
    CleanupPrograms \cup EscapePrograms \cup ContinuationPrograms \cup TailPrograms
    \cup SignalPrograms \cup DataPrograms \cup DataclassPrograms \cup ScopePrograms
    \cup ForwardPrograms \cup ResumePrograms \cup DiscardPrograms \cup SnapshotPrograms
    \cup SequencePrograms

(***************************************************************************)
(* eval_toplevel and the steps of its loop.                                *)
(***************************************************************************)
St ==
    [frames |-> frames, call_stack |-> call_stack, panic_value |-> panic_value,
     ctxs |-> ctxs, conts |-> conts, instances |-> instances, types |-> DataWorld.types,
     exc |-> "none",
     signals |-> <<>>, delivered |-> <<>>]

Top == call_stack[Len(call_stack)]

\* The test that ends eval_toplevel's loop.
AtExit ==
    /\ Len(call_stack) = 1
    /\ LET frame == frames[call_stack[1]]
       IN /\ frame.spot = Len(frame.sequence) \/ frame.force_unwind
          /\ IsNone(frame.cleanup)

\* eval_toplevel is about to call eval_one_op.
Stepping ==
    /\ status = "running"
    /\ Len(frames) < MaxFrames
    /\ call_stack # <<>>
    /\ ~AtExit

\* The assertions at the head of eval_one_op.
HeadAssertions ==
    LET frame == frames[Top]
    IN /\ 0 <= frame.spot /\ frame.spot <= Len(frame.sequence)
       /\ ~(frame.is_cleanup /\ frame.force_unwind)

Returning == frames[Top].spot = Len(frames[Top].sequence) \/ frames[Top].force_unwind

\* The bytecode eval_one_op fetches.
Fetched == frames[Top].sequence[frames[Top].spot + 1]

Fetching(ops) == Stepping /\ ~Returning /\ Fetched.op \in ops

NoEvent == [kind |-> "exec", frame |-> 0, cleanup_frame |-> 0, target |-> 0,
            value |-> None, pending |-> <<>>, slot |-> ""]

\* The frames of a call stack above position at that have a cleanup action
\* pending, innermost first.
RECURSIVE PendingAbove(_, _, _)
PendingAbove(fs, stack, at) ==
    IF Len(stack) <= at THEN <<>>
    ELSE LET f == stack[Len(stack)]
             rest == PendingAbove(fs, SubSeq(stack, 1, Len(stack) - 1), at)
         IN IF IsNone(fs[f].cleanup) THEN rest ELSE <<f>> \o rest

\* One eval_one_op call took the machine to s (a host exception escaping it
\* ends eval_toplevel); ev is what it did, for the history variables.
Install(s, message, args, ev) ==
    /\ frames' = s.frames
    /\ call_stack' = s.call_stack
    /\ panic_value' = s.panic_value
    /\ ctxs' = s.ctxs
    /\ conts' = s.conts
    /\ instances' = s.instances
    /\ status' = IF Ok(s) THEN "running" ELSE s.exc
    /\ result' = result
    /\ input' = input
    /\ last' = [op |-> IF Returning THEN "return" ELSE Fetched.op, frame |-> Top,
                message |-> message, args |-> args,
                frames |-> frames, call_stack |-> call_stack, instances |-> instances,
                ctxs |-> ctxs, signals |-> s.signals, delivered |-> s.delivered, exc |-> s.exc]
    /\ log' = Append(log, [ev EXCEPT !.frame = Top])
    /\ UNCHANGED <<worlds, outcome>>

Guarded(s) == IF HeadAssertions THEN s ELSE Raise(St, "AssertionError")

Simple(s) == Install(Guarded(s), "", <<>>, NoEvent)

\* eval_toplevel up to its loop: a compilation error leaves it before any
\* frame exists.
\* The global Context after a compilation: create_or_add_method has bound
\* each message method:does: defined to a new MultiMethod of that one method.
DefinedSlots(defined) ==
    [m \in {defined[i].message : i \in 1..Len(defined)} |->
        LET d == CHOOSE d \in {defined[i] : i \in 1..Len(defined)} : d.message = m
        IN MultiMethod(m, <<Method(<<AnyM>>,
                                   QuoteMethodBody(2, d.param_names, d.body, d.comp_ctxt))>>)]

\* eval_toplevel: no frame is made when compilation fails, or when it emits
\* no bytecode at all ("must have been all compile-time evaluation").
Start(program, handler, compiled) ==
        /\ ctxs = <<Context(Merge(DefinedSlots(compiled.ctxt.defined), GlobalSlots(handler)), 0),
                    Context(<<>>, 1)>>
        /\ frames = IF compiled.ok /\ compiled.code # <<>>
                    THEN <<CallFrame("<top level>", compiled.code,
                                     1, NullValue, None, FALSE, None)>>
                    ELSE <<>>
        /\ call_stack = IF compiled.ok /\ compiled.code # <<>> THEN <<1>> ELSE <<>>
        /\ panic_value = None
        /\ conts = <<>>
        /\ instances = <<>>
        /\ status = IF ~compiled.ok THEN "ValueError"
                    ELSE IF compiled.code = <<>> THEN "returned" ELSE "running"
        /\ result = IF compiled.ok /\ compiled.code = <<>> THEN NullValue ELSE None
        /\ input = [program |-> program.name, n |-> program.n, handler |-> handler]
        /\ last = [op |-> "none", frame |-> 0, message |-> "", args |-> <<>>,
                   frames |-> <<>>, call_stack |-> <<>>, instances |-> <<>>,
                   ctxs |-> <<>>, signals |-> <<>>, delivered |-> <<>>, exc |-> "none"]
        /\ log = <<>>
        /\ worlds = [r \in Runs |-> BuiltinWorld]
        /\ outcome = NoOutcome

Init ==
    \E program \in Programs, handler \in HandlerKinds :
        Start(program, handler,
              CompileExpr(program.expr, FALSE, GlobalCompilationContext(handler)))

\* eval_one_op, the return path.
eval_return ==
    /\ Stepping
    /\ Returning
    /\ LET s == Guarded(op_return(St, Top))
           frame == frames[Top]
           ran == ~IsNone(frame.cleanup) /\ Len(s.frames) > Len(frames)
       IN Install(s, "", <<>>,
                  [NoEvent EXCEPT !.kind = "return",
                                  !.cleanup_frame = IF ran THEN Len(s.frames) ELSE 0,
                                  !.value = IF frame.is_cleanup THEN frame.cleanup_retain
                                            ELSE IF frame.data_stack = <<>> THEN None
                                            ELSE frame.data_stack[Len(frame.data_stack)]])

get_slot ==
    /\ Fetching({"get-slot"})
    /\ LET value == lookup(St, frames[Top].context, Fetched.a)
       IN Simple(IF IsNone(value) THEN Raise(St, "AssertionError")
                 ELSE [St EXCEPT !.frames[Top].data_stack = Append(@, value),
                                 !.frames[Top].spot = @ + 1])

\* create-slot without its assertion on the frame's Context.
create_slot_overwriting ==
    /\ Fetching({"create-slot"})
    /\ LET frame == frames[Top]
           slot == Fetched.a
       IN Simple(IF frame.data_stack = <<>>
                 THEN Raise(St, "AssertionError")
                 ELSE [St EXCEPT !.ctxs[frame.context].slots =
                                     Merge([x \in {slot} |->
                                               frame.data_stack[Len(frame.data_stack)]], @),
                                 !.frames[Top].spot = @ + 1])

create_slot ==
    /\ Fetching({"create-slot"})
    /\ LET frame == frames[Top]
           slot == Fetched.a
       IN Simple(IF slot \in DOMAIN ctxs[frame.context].slots \/ frame.data_stack = <<>>
                 THEN Raise(St, "AssertionError")
                 ELSE [St EXCEPT !.ctxs[frame.context].slots =
                                     Merge([x \in {slot} |->
                                               frame.data_stack[Len(frame.data_stack)]], @),
                                 !.frames[Top].spot = @ + 1])

push_default_receiver ==
    /\ Fetching({"push-default-receiver"})
    /\ Simple([St EXCEPT !.frames[Top].data_stack = Append(@, frames[Top].default_receiver),
                         !.frames[Top].spot = @ + 1])

push_value ==
    /\ Fetching({"push-value"})
    /\ Simple([St EXCEPT !.frames[Top].data_stack = Append(@, Fetched.a),
                         !.frames[Top].spot = @ + 1])

push_closure ==
    /\ Fetching({"push-closure"})
    /\ LET quote == Fetched.a
           closure == QuoteValue(quote.parameters, quote.body, quote.comp_ctxt,
                                 frames[Top].context)
       IN Simple(IF quote.context # 0 THEN Raise(St, "AssertionError")
                 ELSE [St EXCEPT !.frames[Top].data_stack = Append(@, closure),
                                 !.frames[Top].spot = @ + 1])

\* The frames of pending that were created after every frame of snapshot:
\* a Continuation's frames are copied when it is captured, so these are in
\* no copy of it.
CreatedAfter(pending, snapshot) ==
    SelectSeq(pending, LAMBDA f : \A i \in 1..Len(snapshot) : f > snapshot[i])

\* What an invoke did to the control state, for the history.
InvokeEvent(s, message, args) ==
    IF ~Ok(s) \/ s.signals # <<>> THEN NoEvent
    ELSE IF message = "call:" /\ args[1].t = "return-continuation"
    THEN [NoEvent EXCEPT !.kind = "rc", !.target = args[1].return_to, !.value = args[2],
                         !.pending = PendingAbove(frames, call_stack,
                                         PositionOf(call_stack, args[1].return_to))]
    ELSE IF message = "call:" /\ args[1].t = "continuation"
    THEN [NoEvent EXCEPT !.kind = "resume", !.target = args[1].state, !.value = args[2],
                         !.pending = CreatedAfter(PendingAbove(frames, call_stack, 0),
                                                  conts[args[1].state].call_stack)]
    ELSE IF message = "call/rc"
    THEN [NoEvent EXCEPT !.kind = "call/rc", !.target = Top]
    ELSE IF message = "panic!:"
    THEN [NoEvent EXCEPT !.kind = "panic", !.value = args[2],
                         !.pending = PendingAbove(frames, call_stack, 0)]
    ELSE IF args[1].t = "type" /\ Len(s.instances) > Len(instances)
    THEN [NoEvent EXCEPT !.kind = "new", !.target = Len(s.instances),
                         !.value = VectorValue(Tail(args))]
    ELSE IF args[1].t = "dataclass" /\ \E slot \in SlotNames : message = ("set-" \o slot) \o ":"
    THEN [NoEvent EXCEPT !.kind = "set", !.target = args[1].id, !.value = args[2],
                         !.slot = CHOOSE slot \in SlotNames : message = ("set-" \o slot) \o ":"]
    ELSE IF args[1].t = "dataclass" /\ \E slot \in SlotNames : message = "." \o slot
    THEN [NoEvent EXCEPT !.kind = "get", !.target = args[1].id,
                         !.value = s.frames[Top].data_stack[Len(s.frames[Top].data_stack)],
                         !.slot = CHOOSE slot \in SlotNames : message = "." \o slot]
    ELSE NoEvent

invoke ==
    /\ Fetching({"invoke", "tail-invoke"})
    /\ LET message == Fetched.a
           nargs == Fetched.n
           args == IF Len(frames[Top].data_stack) >= nargs
                   THEN TakeLast(frames[Top].data_stack, nargs) ELSE <<>>
           s == Guarded(IF nargs <= 0 THEN Raise(St, "AssertionError")
                        ELSE op_invoke(St, Top, message, nargs, Fetched.op = "tail-invoke"))
       IN Install(s, message, args, InvokeEvent(s, message, args))

components_vector ==
    /\ Fetching({"components>vector"})
    /\ LET length == Fetched.n
       IN Simple(IF length > Len(frames[Top].data_stack) THEN Raise(St, "AssertionError")
                 ELSE [St EXCEPT !.frames[Top].data_stack =
                                     Append(DropLast(@, length), VectorValue(TakeLast(@, length))),
                                 !.frames[Top].spot = @ + 1])

components_tuple ==
    /\ Fetching({"components>tuple"})
    /\ LET length == Fetched.n
       IN Simple(IF length > Len(frames[Top].data_stack) THEN Raise(St, "AssertionError")
                 ELSE [St EXCEPT !.frames[Top].data_stack =
                                     Append(DropLast(@, length), TupleValue(TakeLast(@, length))),
                                 !.frames[Top].spot = @ + 1])

drop ==
    /\ Fetching({"drop"})
    /\ Simple(IF frames[Top].data_stack = <<>> THEN Raise(St, "IndexError")
              ELSE [St EXCEPT !.frames[Top].data_stack = DropLast(@, 1),
                              !.frames[Top].spot = @ + 1])

\* eval_toplevel after its loop: the panic value is raised as an
\* EvaluationError, else the one value left is returned.
eval_toplevel_return ==
    /\ status = "running"
    /\ call_stack # <<>>
    /\ AtExit
    /\ LET frame == frames[call_stack[1]]
       IN /\ status' = IF ~IsNone(panic_value) THEN "EvaluationError"
                       ELSE IF Len(frame.data_stack) # 1 THEN "AssertionError"
                       ELSE IF frame.is_cleanup /\ IsNone(frame.cleanup_retain)
                       THEN "AssertionError"
                       ELSE "returned"
          /\ result' = IF ~IsNone(panic_value) THEN panic_value
                       ELSE IF Len(frame.data_stack) # 1 THEN None
                       ELSE IF frame.is_cleanup THEN frame.cleanup_retain
                       ELSE frame.data_stack[1]
    /\ last' = [last EXCEPT !.op = "exit", !.frame = call_stack[1], !.message = "",
                            !.args = <<>>, !.frames = frames, !.call_stack = call_stack,
                            !.instances = instances, !.ctxs = ctxs, !.signals = <<>>, !.delivered = <<>>, !.exc = "none"]
    /\ log' = Append(log, [NoEvent EXCEPT !.kind = "exit", !.frame = call_stack[1]])
    /\ UNCHANGED <<frames, call_stack, panic_value, ctxs, conts, instances, input, worlds,
                   outcome>>

Next ==
    \/ eval_return
    \/ get_slot
    \/ create_slot
    \/ push_default_receiver
    \/ push_value
    \/ push_closure
    \/ invoke
    \/ components_vector
    \/ components_tuple
    \/ drop
    \/ eval_toplevel_return

Spec == Init /\ [][Next]_vars

\* eval_toplevel's loop keeps calling eval_one_op.
FairSpec == Spec /\ WF_vars(Next)

\* Sanity: the values the VM's own assertions and annotations rely on.
TypeOK ==
    /\ status \in {"idle", "running", "returned", "EvaluationError", "RunError", "AssertionError",
                   "ValueError", "IndexError", "AttributeError", "NotImplementedError",
                   "ZeroDivisionError"}
    /\ \A i \in 1..Len(call_stack) : call_stack[i] \in 1..Len(frames)
(***************************************************************************)
(* Definitions evaluated at top level against the global Context, one      *)
(* expression per step: mixin:, mix-in:to:, data:extends:has: and          *)
(* method:does:, and the send of a unary message.  No evaluation is in     *)
(* progress between them.                                                  *)
(***************************************************************************)
Idle ==
    /\ frames = <<>>
    /\ call_stack = <<>>
    /\ panic_value = None
    /\ ctxs = <<>>
    /\ conts = <<>>
    /\ instances = <<>>
    /\ status = "idle"
    /\ result = None
    /\ input = [program |-> "", n |-> 0, handler |-> "unbound"]
    /\ last = [op |-> "none", frame |-> 0, message |-> "", args |-> <<>>,
               frames |-> <<>>, call_stack |-> <<>>, instances |-> <<>>,
               ctxs |-> <<>>, signals |-> <<>>, delivered |-> <<>>, exc |-> "none"]
    /\ log = <<>>

\* How an exception raised by a definition reaches the caller of
\* eval_toplevel.  A compile-time handler (method:does:) raises out of the
\* compiler.  A native handler is called by _do_invoke, which catches the
\* exception and signals internal-error: with handle-signal: bound in the
\* global Context its method is invoked and the expression goes on with
\* what it returns, without it signal_error raises RunError.
surfaced(w, native, exc) ==
    IF exc = "none" THEN [signaled |-> "none", end |-> "returned"]
    ELSE IF ~native THEN [signaled |-> "none", end |-> exc]
    ELSE IF "handle-signal:" \in DOMAIN w.slots
    THEN [signaled |-> "internal-error", end |-> "handled"]
    ELSE [signaled |-> "internal-error", end |-> "RunError"]

\* Process r evaluated one definition: done is the exception its handler
\* raised, if any, and the world it left.
Defined(r, op, native, message, arg, done) ==
    /\ worlds' = [worlds EXCEPT ![r] = done.world]
    /\ outcome' = [NoOutcome EXCEPT
                     !.op = op, !.run = r, !.exc = done.exc, !.before = worlds[r],
                     !.message = message, !.arg = arg,
                     !.signaled = surfaced(done.world, native, done.exc).signaled,
                     !.end = surfaced(done.world, native, done.exc).end]
    /\ UNCHANGED machine

\* The number of entries in the bases lists of the types S.
RECURSIVE CountBases(_, _)
CountBases(ts, S) ==
    IF S = {} THEN 0
    ELSE LET n == CHOOSE x \in S : TRUE
         IN Len(ts[n].bases) + CountBases(ts, S \ {n})

\* The vectors of at most two of the types S.
Vectors(S) == {<<>>} \cup {<<a>> : a \in S} \cup {<<a, b>> : a \in S, b \in S}

\* mixin: name
mixin(r, names) ==
    \E name \in names :
        Defined(r, "mixin:", TRUE, name, None, handle__mixin_(worlds[r], name))

\* mix-in: mixin to: type, both names bound to types
mix_in_to(r, names, most) ==
    /\ CountBases(worlds[r].types, DOMAIN worlds[r].types) < most
    /\ \E m \in names \cap DOMAIN worlds[r].types, type \in names \cap DOMAIN worlds[r].types :
           Defined(r, "mix-in:to:", TRUE, type, m, handle__mix_in_to_(worlds[r], m, type))

\* data: name extends: { ... } has: {}
data_extends_has(r, names, bases, most) ==
    \E name \in names, extends \in Vectors(bases \cap DOMAIN worlds[r].types) :
        /\ CountBases(worlds[r].types, DOMAIN worlds[r].types) + Len(extends) <= most
        /\ Defined(r, "data:extends:has:", TRUE, name, extends,
                   define_dataclass(worlds[r], name, extends, <<>>))

\* method: [(x: type) message] does: [body], or [x message] for Any
method_does(r, declarations, most) ==
    /\ Len(worlds[r].bodies) < most
    /\ \E d \in declarations :
           Defined(r, "method:does:", FALSE, d.message,
                   [matcher |-> d.matcher, body |-> d.body],
                   handle__method_does_(worlds[r], d.message, d.matcher, d.body))

\* The values the names and literals of a top-level expression give: 1, a
\* type by its name, and D new for a dataclass D.
Arguments(w, names) ==
    {NumberValue(1)}
        \cup {TypeValue(n) : n \in names \cap DOMAIN w.types}
        \cup {DataclassValue(n, <<>>) :
                n \in {d \in names \cap DOMAIN w.types : w.types[d].kind = "dataclass"}}

\* argument message, at top level
send(r, messages, names, depth) ==
    \E message \in {m \in messages \cap DOMAIN worlds[r].slots :
                        worlds[r].slots[m].t = "multimethod"},
       arg \in Arguments(worlds[r], names) :
        LET done == invoke_unary(worlds[r], message, arg, depth)
        IN /\ worlds' = [worlds EXCEPT ![r] = done.world]
           /\ outcome' = [NoOutcome EXCEPT
                            !.op = "send", !.run = r, !.before = worlds[r],
                            !.message = message, !.arg = arg, !.end = done.end,
                            !.selected = select_method(worlds[r].types,
                                                       worlds[r].slots[message], <<arg>>),
                            !.ran = done.ran]
           /\ UNCHANGED machine

(***************************************************************************)
(* The type graph alone: three mixins, a dataclass and the builtin         *)
(* Number, in one process.                                                 *)
(***************************************************************************)
\* At most this many entries in all bases lists together.
MaxBases == 4

TypeNames == {"M1", "M2", "M3", "D1", "Number"}

TypeInit ==
    /\ Idle
    /\ worlds = [r \in Runs |-> BuiltinWorld]
    /\ outcome = NoOutcome

TypeMixin == mixin(1, {"M1", "M2", "M3"})

TypeMixInTo == mix_in_to(1, TypeNames, MaxBases)

TypeData == data_extends_has(1, {"D1"}, TypeNames, MaxBases)

TypeNext == TypeMixin \/ TypeMixInTo \/ TypeData

TypeSpec == TypeInit /\ [][TypeNext]_vars

(***************************************************************************)
(* Methods and dispatch in one process: two mixins and a dataclass, and    *)
(* methods on a new message foo, on the intrinsic call, on the builtin     *)
(* print and on the predicate D1? of the dataclass.                        *)
(***************************************************************************)
\* At most this many method:does: definitions are evaluated.
MaxMethods == 2
\* A send is followed through at most this many nested sends.
MaxDepth == 2

Declaration(message, matcher, body) == [message |-> message, matcher |-> matcher, body |-> body]

DispatchDeclarations == {
    \* method: [x foo] does: [x print]
    Declaration("foo", ParameterAnyMatcher, Unary(Name("x"), "print")),
    \* method: [(x: M1) foo] does: [1]
    Declaration("foo", Type("M1"), Num(1)),
    \* method: [(x: M2) foo] does: [x foo]
    Declaration("foo", Type("M2"), Unary(Name("x"), "foo")),
    \* method: [x call] does: [1]
    Declaration("call", ParameterAnyMatcher, Num(1)),
    \* method: [x print] does: [1]
    Declaration("print", ParameterAnyMatcher, Num(1)),
    \* method: [(x: M1) print] does: [1]
    Declaration("print", Type("M1"), Num(1)),
    \* method: [x D1?] does: [1]
    Declaration("D1?", ParameterAnyMatcher, Num(1))}

DispatchMixin == mixin(1, {"M1", "M2"})

DispatchMixInTo == mix_in_to(1, {"M1", "M2"}, MaxBases)

DispatchData == data_extends_has(1, {"D1"}, {"M2"}, MaxBases)

DispatchMethod == method_does(1, DispatchDeclarations, MaxMethods)

DispatchSend == send(1, {"foo", "call", "print"}, {"D1"}, MaxDepth)

DispatchNext ==
    DispatchMixin \/ DispatchMixInTo \/ DispatchData \/ DispatchMethod \/ DispatchSend

DispatchSpec == TypeInit /\ [][DispatchNext]_vars

(***************************************************************************)
(* Two processes side by side.  Both have evaluated                        *)
(*     mixin: :M1.  mixin: :M2.  data: :D1 extends: {M2} has: {}           *)
(* and go on, each on its own, with mix-in:to: between the mixins, methods *)
(* on foo and sends of foo.                                                *)
(***************************************************************************)
TypedWorld ==
    define_dataclass(
        handle__mixin_(handle__mixin_(BuiltinWorld, "M1").world, "M2").world,
        "D1", <<"M2">>, <<>>).world

PairDeclarations == {
    \* method: [(x: M1) foo] does: [1]
    Declaration("foo", Type("M1"), Num(1)),
    \* method: [(x: M2) foo] does: [x print]
    Declaration("foo", Type("M2"), Unary(Name("x"), "print"))}

PairInit ==
    /\ Idle
    /\ worlds = [r \in Runs |-> TypedWorld]
    /\ outcome = NoOutcome

PairMixInTo == \E r \in Runs : mix_in_to(r, {"M1", "M2"}, MaxBases)

PairMethod == \E r \in Runs : method_does(r, PairDeclarations, MaxMethods)

PairSend == \E r \in Runs : send(r, {"foo"}, {"D1"}, MaxDepth)

PairNext == PairMixInTo \/ PairMethod \/ PairSend

PairSpec == PairInit /\ [][PairNext]_vars

(***************************************************************************)
(* Definitions that can fail, with and without a handle-signal: method in  *)
(* the global Context:                                                     *)
(*     method: [handle-signal: c] does: [9]                                *)
(***************************************************************************)
HandledWorld ==
    [BuiltinWorld EXCEPT
        !.slots = Merge([m \in {"handle-signal:"} |-> HandlerSlot("method")], @),
        !.deps = Merge([m \in {"handle-signal:"} |-> <<>>], @)]

DefinitionInit ==
    /\ Idle
    /\ \E w \in {BuiltinWorld, HandledWorld} : worlds = [r \in Runs |-> w]
    /\ outcome = NoOutcome

DefinitionMixin == mixin(1, {"M1", "M2"})

DefinitionMixInTo == mix_in_to(1, {"M1", "M2"}, MaxBases)

DefinitionData == data_extends_has(1, {"D1", "D2"}, {"M1", "D1", "Number"}, MaxBases)

\* method: [x print] does: [1]
DefinitionMethod ==
    method_does(1, {Declaration("print", ParameterAnyMatcher, Num(1))}, MaxMethods)

DefinitionNext == DefinitionMixin \/ DefinitionMixInTo \/ DefinitionData \/ DefinitionMethod

DefinitionSpec == DefinitionInit /\ [][DefinitionNext]_vars

(***************************************************************************)
(* eval_one_op on assembled bytecode: one invoke of a message with its     *)
(* operands on the data stack above what the frame already holds.  The     *)
(* compiler rejects a name that is bound nowhere, so the lookup of an      *)
(* invoke op fails for assembled bytecode only.                            *)
(***************************************************************************)
MaxBelow == 1

\* The message of the invoke op and the operands pushed for it: a slot bound
\* nowhere, a native method that raises, two methods neither more specific,
\* no method that matches, and a method that succeeds.
InvokeInputs ==
    {[message |-> "nope", operands |-> <<NumberValue(1)>>],
     [message |-> "nope", operands |-> <<NumberValue(1), NumberValue(0)>>],
     [message |-> "/:", operands |-> <<NumberValue(1), NumberValue(0)>>],
     [message |-> "amb:", operands |-> <<NumberValue(1), NumberValue(0)>>],
     [message |-> "at:", operands |-> <<NumberValue(1), NumberValue(0)>>],
     [message |-> "-:", operands |-> <<NumberValue(1), NumberValue(0)>>]}

Pushes(values) == [i \in 1..Len(values) |-> Op("push-value", values[i], 0)]

\* below values already on the stack, the operands, the invoke.
Assemble(below, invocation) ==
    Pushes([i \in 1..below |-> NumberValue(9)])
    \o Pushes(invocation.operands)
    \o <<Op("invoke", invocation.message, Len(invocation.operands))>>

InvokeInit ==
    \E invocation \in InvokeInputs, below \in 0..MaxBelow, handler \in HandlerKinds :
        Start(Program(invocation.message, Len(invocation.operands), NoExpr), handler,
              Compiled(Assemble(below, invocation), GlobalCompilationContext(handler), TRUE))

InvokeNext == push_value \/ invoke \/ eval_return \/ eval_toplevel_return

InvokeSpec == InvokeInit /\ [][InvokeNext]_vars

(***************************************************************************)
(* Properties.  log is the sequence of steps taken so far (the frame that  *)
(* was on top, and what the step did); last is the latest step with the    *)
(* frames and call stack it started from.                                  *)
(***************************************************************************)
OnStack(stack, f) == \E i \in 1..Len(stack) : stack[i] = f

Later(i) == (i + 1)..Len(log)

\* Step j popped frame f and started its cleanup action in a cleanup frame.
RanCleanup(f, j) ==
    log[j].kind = "return" /\ log[j].frame = f /\ log[j].cleanup_frame # 0

\* Between steps i and j the cleanup action of frame f was started and the
\* cleanup frame running it returned.
CleanupDone(f, i, j) ==
    \E a \in Later(i) : \E b \in Later(a) :
        /\ b < j
        /\ RanCleanup(f, a)
        /\ log[b].kind = "return" /\ log[b].frame = log[a].cleanup_frame

\* The latest step returned from a frame that had a cleanup action attached.
ProtectedFrameEnded ==
    /\ last.op = "return"
    /\ ~IsNone(last.frames[last.frame].cleanup)

\* C1: a cleanup action attached with cleanup: runs exactly once per
\* activation of the protected frame, however the frame ends (normal return,
\* forced unwind by a ReturnContinuation escape or by a panic): the step that
\* ends the frame starts the action in a fresh cleanup frame that retains the
\* frame's value (never zero times), and no frame's action is started twice.
C1_CleanupRunsExactlyOnce ==
    /\ ProtectedFrameEnded =>
          /\ status = "running"
          /\ log[Len(log)].cleanup_frame = Top
          /\ ~(Top \in DOMAIN last.frames)
          /\ frames[Top].is_cleanup
          /\ frames[Top].cleanup_retain = log[Len(log)].value
    /\ \A i, j \in DOMAIN log :
          (\E f \in DOMAIN frames : RanCleanup(f, i) /\ RanCleanup(f, j)) => i = j

\* An unwind: a ReturnContinuation escape or a panic.
IsUnwind(i) == log[i].kind \in {"rc", "panic"}

\* Step j is a step of the frame the unwind of step i leads to (for a panic,
\* the end of eval_toplevel's loop).
AtTarget(i, j) ==
    IF log[i].kind = "rc" THEN log[j].frame = log[i].target ELSE log[j].kind = "exit"

\* C2: when a force-unwind (a ReturnContinuation escape or a panic) crosses
\* frames with pending cleanup actions, every one of those cleanups runs,
\* innermost first, and each completes before any instruction of the
\* unwind's target frame executes.
C2_UnwindRunsCleanupsInOrder ==
    \A i \in DOMAIN log : IsUnwind(i) =>
        LET pending == log[i].pending
        IN /\ \A k \in DOMAIN pending : \A j \in Later(i) :
                 (log[j].kind = "return" /\ log[j].frame = pending[k]) =>
                     /\ RanCleanup(pending[k], j)
                     /\ \A l \in 1..(k - 1) : CleanupDone(pending[l], i, j)
           /\ \A j \in Later(i) :
                 AtTarget(i, j) => \A k \in DOMAIN pending : CleanupDone(pending[k], i, j)

\* C3: tail-recursive self-invocation does not grow the frame count: the
\* counting-loop methods (the recursive call a tail-invoke in the branch
\* quote of an if:then:else: that is the body's last call) keep the number
\* of live call frames within the constant the zero-iteration run needs,
\* whatever the number of iterations.
C3_TailLoopBounded ==
    input.program \in {"loop", "tloop", "down"} => Len(call_stack) <= 3

\* The latest step was a tail-invoke that pushed a callee frame.
TailInvokePushed ==
    /\ last.op = "tail-invoke"
    /\ status = "running"
    /\ Len(frames) = Len(last.frames) + 1
    /\ Top = Len(frames)

\* The caller of the latest step, as invoke_compiled found it: pc at its last
\* instruction, no pending cleanup, not a cleanup frame, no live
\* ReturnContinuation (call/rc has counted the one it creates by then).
TailEligible ==
    LET caller == last.frames[last.frame]
    IN /\ caller.spot = Len(caller.sequence) - 1
       /\ IsNone(caller.cleanup)
       /\ ~caller.is_cleanup
       /\ frames[last.frame].num_nonlocal_returns = 0

\* C4: a tail-invoke pops the caller's frame before pushing the callee's
\* frame if and only if the caller's pc is at its last instruction, it has no
\* pending cleanup, is not a cleanup frame and has zero live
\* ReturnContinuations; otherwise it behaves like a non-tail invoke (caller
\* kept, its pc advanced by one, callee pushed above it).
C4_TailInvokePopsIffEligible ==
    TailInvokePushed =>
        IF TailEligible
        THEN call_stack = Append(DropLast(last.call_stack, 1), Top)
        ELSE /\ call_stack = Append(last.call_stack, Top)
             /\ frames[last.frame].spot = last.frames[last.frame].spot + 1
\* The latest step invoked Continuation k (call: on a ContinuationValue).
Resumed(k) ==
    /\ log # <<>>
    /\ log[Len(log)].kind = "resume"
    /\ log[Len(log)].target = k

\* C5: call/cc is multi-shot: the frames a Continuation stores stay as they
\* were captured (pc and data stack), and every invocation of it installs
\* fresh copies of them, each with the captured pc and data stack, the
\* supplied value pushed on the top one; nothing of an earlier resumption
\* shows in a later one.
C5_ContinuationMultiShot ==
    \A k \in DOMAIN conts :
        LET snapshot == conts[k].call_stack
            captured == conts[k].captured
        IN /\ \A i \in DOMAIN snapshot :
                 /\ frames[snapshot[i]].spot = captured[i].spot
                 /\ frames[snapshot[i]].data_stack = captured[i].data_stack
           /\ Resumed(k) =>
                 /\ Len(call_stack) = Len(snapshot)
                 /\ \A i \in DOMAIN call_stack :
                       /\ ~(call_stack[i] \in DOMAIN last.frames)
                       /\ frames[call_stack[i]].spot = captured[i].spot
                       /\ frames[call_stack[i]].data_stack =
                             IF i = Len(call_stack)
                             THEN Append(captured[i].data_stack, log[Len(log)].value)
                             ELSE captured[i].data_stack

\* A Continuation is invoked for the second time, after steps of the first
\* resumption ran.
C5_SecondResumption ==
    \E k \in DOMAIN conts : \E i \in DOMAIN log :
        /\ Resumed(k)
        /\ i + 1 < Len(log)
        /\ log[i].kind = "resume" /\ log[i].target = k
        /\ log[i].value # log[Len(log)].value

\* The latest step invoked a ReturnContinuation (call:) whose target frame is
\* not on the call stack strictly below the top frame.
StaleReturnContinuation ==
    /\ last.op \in {"invoke", "tail-invoke"}
    /\ last.message = "call:"
    /\ Len(last.args) = 2
    /\ last.args[1].t = "return-continuation"
    /\ ~OnStack(DropLast(last.call_stack, 1), last.args[1].return_to)

\* C6: invoking a ReturnContinuation whose target frame is not present, by
\* identity, strictly below the current top frame fails (an internal-error
\* condition, fatal when no handler is bound), and the failure leaves the
\* call stack, every frame's force_unwind flag and every frame's count of
\* live ReturnContinuations as they were.
C6_StaleReturnContinuationFails ==
    StaleReturnContinuation =>
        /\ last.signals # <<>>
        /\ last.signals[1].condition_name = "internal-error"
        /\ last.signals[1].call_stack = last.call_stack
        /\ \A f \in DOMAIN last.frames :
              /\ last.signals[1].frames[f].force_unwind = last.frames[f].force_unwind
              /\ last.signals[1].frames[f].num_nonlocal_returns =
                    last.frames[f].num_nonlocal_returns
        /\ IsNone(lookup(St, last.frames[last.frame].context, "handle-signal:")) =>
              /\ status = "RunError"
              /\ call_stack = last.call_stack
              /\ \A f \in DOMAIN last.frames :
                    /\ frames[f].force_unwind = last.frames[f].force_unwind
                    /\ frames[f].num_nonlocal_returns = last.frames[f].num_nonlocal_returns

\* A ReturnContinuation is invoked after its target frame was replaced on the
\* call stack, while frames with live counts are on the stack.
C6_StaleInvoked ==
    /\ StaleReturnContinuation
    /\ status = "RunError"
    /\ Len(last.call_stack) > 2
    /\ \E f \in DOMAIN last.frames :
          OnStack(last.call_stack, f) /\ last.frames[f].num_nonlocal_returns > 0

\* The latest step was a successful ReturnContinuation invocation.
Escaped == log # <<>> /\ log[Len(log)].kind = "rc"

\* The escape of step i reaches its target now: the target is on top of the
\* call stack for the first time since, and no other escape, panic or
\* Continuation invocation happened in between.
Reached(i) ==
    /\ log[i].kind = "rc"
    /\ status = "running"
    /\ Top = log[i].target
    /\ \A j \in Later(i) : log[j].kind \in {"exec", "return"} /\ log[j].frame # log[i].target

\* C7: a successful ReturnContinuation invocation with value v decrements the
\* target frame's count of live ReturnContinuations and flags every frame
\* above the target force_unwind, except frames running cleanups; and once
\* the frames above it are popped (the intervening cleanup actions having
\* returned) the target frame is the top of the call stack with v on top of
\* its data stack.
C7_EscapeDeliversValue ==
    /\ Escaped =>
          LET target == log[Len(log)].target
              at == PositionOf(call_stack, target)
          IN /\ call_stack = last.call_stack
             /\ frames[target].num_nonlocal_returns =
                   last.frames[target].num_nonlocal_returns - 1
             /\ \A i \in (at + 1)..Len(call_stack) :
                   frames[call_stack[i]].force_unwind =
                       (~frames[call_stack[i]].is_cleanup
                        \/ last.frames[call_stack[i]].force_unwind)
             /\ \A i \in 1..at :
                   frames[call_stack[i]].force_unwind =
                       last.frames[call_stack[i]].force_unwind
    /\ \A i \in DOMAIN log :
          Reached(i) =>
              /\ frames[Top].data_stack # <<>>
              /\ frames[Top].data_stack[Len(frames[Top].data_stack)] = log[i].value
\* The latest step was panic!: v.
Panicked == log # <<>> /\ log[Len(log)].kind = "panic"

\* The latest panic!: of the run.
LastPanic == CHOOSE i \in DOMAIN log :
                 log[i].kind = "panic" /\ \A j \in Later(i) : log[j].kind # "panic"

\* C8: after panic!: v every non-cleanup frame on the call stack is flagged
\* force_unwind, the cleanup action of every frame with a pending cleanup
\* still runs during the unwind, and once those cleanups have returned
\* eval_toplevel ends by surfacing the panic value v, not a normal result.
C8_PanicUnwindsAndSurfaces ==
    /\ Panicked =>
          /\ panic_value = log[Len(log)].value
          /\ \A i \in DOMAIN call_stack :
                ~frames[call_stack[i]].is_cleanup => frames[call_stack[i]].force_unwind
    /\ \A i \in DOMAIN log : log[i].kind = "panic" =>
          \A k \in DOMAIN log[i].pending : \A j \in Later(i) :
              (log[j].kind = "return" /\ log[j].frame = log[i].pending[k]) =>
                  RanCleanup(log[i].pending[k], j)
    /\ ((\E i \in DOMAIN log : log[i].kind = "panic") /\ status = "returned") => FALSE
    /\ ((\E i \in DOMAIN log : log[i].kind = "panic") /\ status = "EvaluationError") =>
          result = log[LastPanic].value

\* The handle-signal: binding the frame of the latest step sees.
HandlerSeen == lookup(St, last.frames[last.frame].context, "handle-signal:")

\* The latest step was an invoke that failed with one condition and
\* handle-signal: was bound in the calling Context chain.
SignalHandled ==
    /\ Len(last.signals) = 1
    /\ ~IsNone(HandlerSeen)

\* The arguments signal_error passes: the calling Context and the
\* (condition-name, message) pair.
SignalArgs ==
    <<ContextRef(last.frames[last.frame].context),
      TupleValue(<<SymbolValue(last.signals[1].condition_name),
                   StringValue("error message")>>)>>

\* C9: when an invoke fails with a recoverable condition and handle-signal:
\* is bound in the calling Context chain, handle-signal: is invoked with the
\* calling Context and a (condition-name, message) pair, the frame's pc
\* advances past the invoke, and the handler's result becomes the result of
\* the failed invocation: a value or native handler's result is on top of the
\* frame's data stack at once, a method handler runs in a frame of its own,
\* its parameters bound to those arguments, and what it returns is pushed on
\* the frame below when it returns.
C9_SignalHandled ==
    /\ SignalHandled =>
          /\ last.signals[1].condition_name \in
                {"undefined-slot", "no-matching-method", "ambiguous-method-resolution",
                 "internal-error"}
          /\ last.delivered = <<SignalArgs>>
          /\ status = "running"
          /\ OnStack(call_stack, last.frame) =>
                frames[last.frame].spot = last.frames[last.frame].spot + 1
          /\ IF HandlerSeen.t # "multimethod"
             THEN /\ call_stack = last.call_stack
                  /\ frames[Top].data_stack =
                        Append(DropLast(last.frames[Top].data_stack, Len(last.args)),
                               HandlerSeen)
             ELSE IF HandlerSeen.methods[1].body.kind = "native"
             THEN /\ call_stack = last.call_stack
                  /\ frames[Top].data_stack =
                        Append(DropLast(last.frames[Top].data_stack, Len(last.args)),
                               NullValue)
             ELSE /\ ~(Top \in DOMAIN last.frames)
                  /\ frames[Top].name = "handle-signal:"
                  /\ frames[Top].spot = 0
                  /\ ctxs[frames[Top].context].slots =
                        [p \in {"self", "c"} |->
                            IF p = "self" THEN SignalArgs[1] ELSE SignalArgs[2]]
    /\ (last.op = "return" /\ last.frames[last.frame].name = "handle-signal:"
            /\ status = "running") =>
          /\ call_stack = DropLast(last.call_stack, 1)
          /\ frames[Top].data_stack =
                Append(last.frames[Top].data_stack, log[Len(log)].value)

\* A failed invoke was handled by a handle-signal: method that returned, and
\* the frame that failed went on with the handler's result.
C9_HandlerReturned ==
    /\ last.op = "return"
    /\ last.frames[last.frame].name = "handle-signal:"
    /\ status = "running"
    /\ \E i \in DOMAIN log : log[i].frame = Top /\ i < Len(log)
    /\ frames[Top].data_stack[Len(frames[Top].data_stack)] = NumberValue(9)

\* A handle-signal: frame is on the call stack the latest step started from:
\* the handler invoked for an earlier condition has not returned.
Signaling ==
    \E i \in DOMAIN last.call_stack :
        last.frames[last.call_stack[i]].name = "handle-signal:"

\* C10: a condition with no bound handle-signal: handler aborts evaluation
\* with a fatal RunError, and signaling is not re-entrant: a condition raised
\* while one is being signaled (before the handle-signal: handler invoked for
\* the first one has returned) aborts with a fatal RunError and does not
\* invoke handle-signal: again.
C10_NoReentrantSignal ==
    /\ (last.signals # <<>> /\ IsNone(HandlerSeen)) => status = "RunError"
    /\ Len(last.signals) > 1 =>
          /\ status = "RunError"
          /\ Len(last.delivered) = 1
    /\ (last.signals # <<>> /\ Signaling) =>
          /\ status = "RunError"
          /\ last.delivered = <<>>

\* The fields of the frames that a handler's fault must leave alone, as
\* they were when the step began and as the signaled condition found them.
Untouched(before, after, stack_before, stack_after) ==
    /\ stack_after = stack_before
    /\ \A f \in DOMAIN before :
          /\ after[f].spot = before[f].spot
          /\ after[f].force_unwind = before[f].force_unwind
          /\ after[f].is_cleanup = before[f].is_cleanup
          /\ after[f].num_nonlocal_returns = before[f].num_nonlocal_returns

InternalErrors == {i \in 1..Len(last.signals) : last.signals[i].condition_name = "internal-error"}

\* C11: a fault raised by an intrinsic or host-native handler is caught at
\* the call boundary and signaled as internal-error, never propagated raw
\* (the step ends running or with the fatal RunError of signal_error), and
\* it leaves the VM state as it was just before the handler was entered:
\* the same call stack, and every frame's pc, flags and live
\* ReturnContinuation count unchanged.
C11_HandlerFaultContained ==
    \A i \in InternalErrors :
        /\ last.exc \in {"none", "RunError"}
        /\ Untouched(last.frames, last.signals[i].frames,
                     last.call_stack, last.signals[i].call_stack)

(***************************************************************************)
(* Properties of the type graph.  Types is the graph of process 1.         *)
(***************************************************************************)
Types == worlds[1].types

Bases(t) == {Types[t].bases[i] : i \in 1..Len(Types[t].bases)}

\* The types reachable from the types S along at most n more bases entries.
RECURSIVE Reach(_, _)
Reach(S, n) ==
    IF n = 0 THEN S ELSE Reach(S \cup UNION {Bases(t) : t \in S}, n - 1)

Ancestors(t) == Reach(Bases(t), Cardinality(DOMAIN Types))

IsSuffix(short, long) ==
    /\ Len(short) <= Len(long)
    /\ SubSeq(long, Len(long) - Len(short) + 1, Len(long)) = short

\* A extends B extends C, each by its only base.
Chain(a, b, c) ==
    /\ Cardinality({a, b, c}) = 3
    /\ Types[a].bases = <<b>>
    /\ Types[b].bases = <<c>>

\* C17: along a chain A extends B extends C, is_subtype(A, C) holds and
\* is_subtype(C, A) does not, and is_subtype(T, T) holds for every type T.
C17_ChainSubtype ==
    /\ \A a, b, c \in DOMAIN Types :
           Chain(a, b, c) => is_subtype(Types, a, c) /\ ~is_subtype(Types, c, a)
    /\ \A t \in DOMAIN Types : is_subtype(Types, t, t)

\* C18: is_subtype(A, B) is true exactly when the linearization of B is a
\* suffix of the linearization of A.
C18_SubtypeIffSuffix ==
    \A a, b \in DOMAIN Types :
        is_subtype(Types, a, b) <=> IsSuffix(Linearization(Types, b), Linearization(Types, a))

\* C19: every cached linearization starts with its type and is the C3 merge
\* of the current linearizations of the type's current bases.
C19_LinearizationsCurrent ==
    \A t \in DOMAIN Types :
        /\ Linearization(Types, t)[1] = t
        /\ c3_linearization(Types, t) = [ok |-> TRUE, linearization |-> Linearization(Types, t)]

\* C20: no type is its own ancestor.
C20_NoCycle == \A t \in DOMAIN Types : t \notin Ancestors(t)

(***************************************************************************)
(* Properties of dispatch.  The latest step of process 1 is in outcome,    *)
(* with the world it started from.                                         *)
(***************************************************************************)
Sent == outcome.op = "send" /\ outcome.run = 1

\* The methods of the multimethod that was sent to, and its candidates:
\* the positions of the methods whose every matcher matches the
\* corresponding argument.
SentMethods == outcome.before.slots[outcome.message].methods

Candidates ==
    {i \in 1..Len(SentMethods) :
        \A k \in 1..Len(SentMethods[i].param_matchers) :
            matches(outcome.before.types, SentMethods[i].param_matchers[k],
                    <<outcome.arg>>[k]) = "yes"}

EarliestIsLeast ==
    \A i \in Candidates :
        method_lte(outcome.before.types, SentMethods[Least(Candidates)], SentMethods[i])

\* C12: select_method signals no-matching-method when no method matches the
\* arguments, returns the only candidate when there is one, and with
\* several returns the earliest in the list if it is <= every other
\* candidate and signals ambiguous-method-resolution otherwise.
C12_SelectMethod ==
    Sent =>
        outcome.selected =
            IF Candidates = {}
            THEN [kind |-> "signal", condition_name |-> "no-matching-method"]
            ELSE IF Cardinality(Candidates) = 1 \/ EarliestIsLeast
            THEN [kind |-> "method", method |-> SentMethods[Least(Candidates)]]
            ELSE [kind |-> "signal", condition_name |-> "ambiguous-method-resolution"]

\* A send found several candidates and was given the earliest of them.
C12_SeveralCandidates ==
    /\ Sent
    /\ Cardinality(Candidates) > 1
    /\ outcome.selected.kind = "method"
    /\ outcome.selected.method = SentMethods[Least(Candidates)]

\* The latest step evaluated method:does: on a message that is bound to a
\* multimethod, with a matcher whose type name is bound.
Declared ==
    /\ outcome.op = "method:does:" /\ outcome.run = 1
    /\ outcome.message \in DOMAIN outcome.before.slots
    /\ outcome.before.slots[outcome.message].t = "multimethod"
    /\ outcome.arg.matcher.k = "type" => outcome.arg.matcher.param_type \in DOMAIN outcome.before.slots

MethodsBefore == outcome.before.slots[outcome.message].methods

MethodsAfter == worlds[1].slots[outcome.message].methods

DeclaredMatchers == <<outcome.arg.matcher>>

Registered(methods, matchers) == \E i \in 1..Len(methods) : methods[i].param_matchers = matchers

Incomparable(ts, a, b) ==
    /\ \E k \in 1..Len(a) : ~matcher_lte(ts, a[k], b[k])
    /\ \E k \in 1..Len(a) : ~matcher_lte(ts, b[k], a[k])

\* C14: a method whose matchers duplicate those of a method already
\* registered on the multimethod is rejected and the method list stays as
\* it was; a method whose matchers are incomparable with those of a
\* registered method is registered beside it.
C14_DuplicateRejected ==
    Declared =>
        /\ Registered(MethodsBefore, DeclaredMatchers) =>
               outcome.exc # "none" /\ MethodsAfter = MethodsBefore
        /\ \A i \in 1..Len(MethodsBefore) :
               (/\ ~Registered(MethodsBefore, DeclaredMatchers)
                /\ Incomparable(outcome.before.types, DeclaredMatchers,
                                MethodsBefore[i].param_matchers))
                   => /\ outcome.exc = "none"
                      /\ Registered(MethodsAfter, DeclaredMatchers)
                      /\ Registered(MethodsAfter, MethodsBefore[i].param_matchers)

\* The multimethods of the global Context of process 1.
MultiMethods == {m \in DOMAIN worlds[1].slots : worlds[1].slots[m].t = "multimethod"}

StrictlyMoreSpecific(ts, a, b) == method_lte(ts, a, b) /\ ~method_lte(ts, b, a)

\* C15: in every methods list no method comes after a method it is
\* strictly more specific than.
C15_MethodsSorted ==
    \A m \in MultiMethods :
        LET methods == worlds[1].slots[m].methods
        IN \A i, j \in 1..Len(methods) :
               i < j => ~StrictlyMoreSpecific(Types, methods[j], methods[i])

BodiesBefore == outcome.before.bodies

BodiesAfter == worlds[1].bodies

\* The compiled bodies the latest step compiled: those created by it and
\* those it found invalidated.
CompiledNow ==
    {b \in 1..Len(BodiesAfter) :
        /\ ~IsNone(BodiesAfter[b].bytecode)
        /\ b > Len(BodiesBefore) \/ IsNone(BodiesBefore[b].bytecode)}

\* The multimethods body b referenced when the latest step compiled it.
Referenced(b) ==
    {m \in {BodiesAfter[b].bytecode.code[i].a : i \in Sends(BodiesAfter[b].bytecode.code)} :
        m \in DOMAIN outcome.before.slots /\ outcome.before.slots[m].t = "multimethod"}

Recorded(b, m) == Contains(worlds[1].deps[m], b)

Current(b) ==
    BodiesAfter[b].bytecode =
        BytecodeSequence(CompileExpr(BodiesAfter[b].body, FALSE,
                             BodyCompilationContext(worlds[1], BodiesAfter[b].message,
                                                    BodiesAfter[b].param_names)).code)

\* C16: adding a method invalidates every compiled body recorded as
\* depending on the multimethod; a body that is run was compiled against
\* the current global Context; and a body that is compiled is recorded as
\* depending on every multimethod it references.
C16_DependentsInvalidated ==
    /\ (Declared /\ outcome.exc = "none") =>
           \A b \in 1..Len(BodiesAfter) :
               Recorded(b, outcome.message) => IsNone(BodiesAfter[b].bytecode)
    /\ Sent => \A i \in 1..Len(outcome.ran) : Current(outcome.ran[i])
    /\ outcome.run = 1 => \A b \in CompiledNow : \A m \in Referenced(b) : Recorded(b, m)

(***************************************************************************)
(* Two processes compared.                                                 *)
(***************************************************************************)
\* A method as its declaration gives it: the matchers and the body.
Declarations(methods) ==
    {[param_matchers |-> methods[i].param_matchers,
      body |-> IF methods[i].body.kind = "quote" THEN methods[i].body.body
               ELSE methods[i].body] : i \in 1..Len(methods)}

SameMethodSet(m) ==
    Declarations(worlds[1].slots[m].methods) = Declarations(worlds[2].slots[m].methods)

\* The same types with the same bases.
SameTypeGraph ==
    /\ DOMAIN worlds[1].types = DOMAIN worlds[2].types
    /\ \A t \in DOMAIN worlds[1].types :
           /\ worlds[1].types[t].kind = worlds[2].types[t].kind
           /\ worlds[1].types[t].bases = worlds[2].types[t].bases

\* What select_method answers in process r: the declaration of the method
\* or the condition.
Answer(r, m, arg) ==
    LET selection == select_method(worlds[r].types, worlds[r].slots[m], <<arg>>)
    IN IF selection.kind = "method"
       THEN [kind |-> "method", methods |-> Declarations(<<selection.method>>)]
       ELSE selection

Comparable ==
    {m \in DOMAIN worlds[1].slots \cap DOMAIN worlds[2].slots :
        worlds[1].slots[m].t = "multimethod" /\ worlds[2].slots[m].t = "multimethod"}

\* C13: two processes that hold the same set of methods for a message and
\* the same type graph select the same method, or signal the same
\* condition, for the same argument.
C13_SelectDeterministic ==
    \A m \in Comparable :
        (SameTypeGraph /\ SameMethodSet(m)) =>
            \A arg \in Arguments(worlds[1], {"D1"}) : Answer(1, m, arg) = Answer(2, m, arg)

(***************************************************************************)
(* Properties of definitions that fail.                                    *)
(***************************************************************************)
Extended == outcome.op = "mix-in:to:" /\ outcome.run = 1

\* C21: an extension that fails leaves the bases, the linearization and
\* the subtype list of every type as they were before the attempt.
C21_FailedExtensionRestores ==
    (Extended /\ outcome.exc # "none") => Types = outcome.before.types

\* C22: a definition that lists a sealed type among its bases is rejected
\* and defines nothing, and adding a base to a sealed type fails and
\* leaves the bases and the linearization of the target unchanged.
C22_SealedProtected ==
    /\ (/\ outcome.op = "data:extends:has:" /\ outcome.run = 1
        /\ \E i \in 1..Len(outcome.arg) : outcome.before.types[outcome.arg[i]].sealed)
           => outcome.exc # "none" /\ worlds[1] = outcome.before
    /\ (Extended /\ outcome.before.types[outcome.message].sealed)
           => /\ outcome.exc # "none"
              /\ Types[outcome.message].bases = outcome.before.types[outcome.message].bases
              /\ Types[outcome.message].linearization =
                     outcome.before.types[outcome.message].linearization

\* The latest step evaluated a definition and its handler raised.
DefinitionFailed ==
    /\ outcome.run = 1
    /\ outcome.op \in {"mixin:", "mix-in:to:", "data:extends:has:", "method:does:"}
    /\ outcome.exc # "none"

\* C23: a definition that fails raises to the caller of the evaluation and
\* signals no condition.
C23_DefinitionErrorsSynchronous ==
    DefinitionFailed => outcome.signaled = "none" /\ outcome.end = outcome.exc

(***************************************************************************)
(* Dataclass instances.                                                    *)
(***************************************************************************)
\* The cumulative slot names of an instance's type.
SlotsOf(instance) == DataWorld.types[instance.type].slots

Dataclasses == {n \in DOMAIN DataWorld.types : DataWorld.types[n].kind = "dataclass"}

\* The latest eval_one_op invoked message (and eval_toplevel went on).
Invoked(message) ==
    last.op \in {"invoke", "tail-invoke"} /\ last.message = message /\ last.exc = "none"

\* C24: every dataclass instance holds exactly as many values as its type
\* has cumulative slot names, the slots of the base dataclass first and the
\* type's own after them; an eval_one_op step (a construction, a setter)
\* keeps every instance there was, with its type and its number of values.
C24_InstanceSlotCount ==
    /\ \A id \in DOMAIN instances : Len(instances[id].values) = Len(SlotsOf(instances[id]))
    /\ \A d \in Dataclasses : \A i \in 1..Len(DataWorld.types[d].bases) :
           LET base == DataWorld.types[d].bases[i]
           IN base \in Dataclasses =>
                  /\ Len(DataWorld.types[base].slots) <= Len(DataWorld.types[d].slots)
                  /\ SubSeq(DataWorld.types[d].slots, 1, Len(DataWorld.types[base].slots))
                         = DataWorld.types[base].slots
    /\ \A id \in DOMAIN last.instances :
           /\ id \in DOMAIN instances
           /\ instances[id].type = last.instances[id].type
           /\ Len(instances[id].values) = Len(last.instances[id].values)

\* A setter of an inherited slot and a setter of an own slot have acted on
\* an instance of y, which has three slots.
C24_SetterOnInherited ==
    /\ Invoked("set-c:")
    /\ \E id \in DOMAIN instances :
           /\ instances[id].type = "y"
           /\ SlotsOf(instances[id]) = <<"a", "b", "c">>
           /\ instances[id].values # <<NumberValue(1), NumberValue(2), NumberValue(3)>>

\* The setter calls among the first i entries of the history that stored
\* into slot of instance id.
SetsOf(id, slot, i) == {j \in 1..i : log[j].kind = "set" /\ log[j].target = id /\ log[j].slot = slot}

\* The construction of instance id in the history.
NewOf(id) == CHOOSE j \in 1..Len(log) : log[j].kind = "new" /\ log[j].target = id

\* What slot of instance id was given last, going by the first i entries
\* of the history: the value of the latest setter call, or the constructor
\* argument when there was none.
Stored(id, slot, i) ==
    IF SetsOf(id, slot, i) # {}
    THEN log[CHOOSE j \in SetsOf(id, slot, i) : \A k \in SetsOf(id, slot, i) : k <= j].value
    ELSE log[NewOf(id)].value.components[index(SlotsOf(instances[id]), slot)]

\* C25: a getter returns the value the slot was constructed with until the
\* slot's setter is called on the instance, and from then on the value set
\* last; the setter stores into the one instance object, whatever name it
\* is reached through, and every other slot keeps what it had.
C25_GetterReturnsLastStored ==
    /\ \A i \in 1..Len(log) :
           log[i].kind = "get" => log[i].value = Stored(log[i].target, log[i].slot, i - 1)
    /\ \A id \in DOMAIN instances : \A k \in 1..Len(instances[id].values) :
           instances[id].values[k] = Stored(id, SlotsOf(instances[id])[k], Len(log))

\* let: p =: (x a: 1 b: 2); let: q =: p; q set-b: n; p .b   has returned n:
\* the getter through p came after the setter through q.
C25_AliasObserves ==
    /\ input.program = "alias"
    /\ status = "returned"
    /\ result = NumberValue(input.n)
    /\ \E i \in 1..Len(log) : \E j \in 1..Len(log) :
           /\ i < j
           /\ log[i].kind = "set" /\ log[i].slot = "b"
           /\ log[j].kind = "get" /\ log[j].slot = "b" /\ log[j].target = log[i].target
           /\ log[j].value = log[i].value
           /\ log[j].value # log[NewOf(log[i].target)].value.components[2]

(***************************************************************************)
(* Assignment and definition of locals.                                    *)
(***************************************************************************)
\* The Context chain from c outward, in the heap cs.
RECURSIVE Outward(_, _)
Outward(cs, c) == IF c = 0 THEN <<>> ELSE <<c>> \o Outward(cs, cs[c].base)

\* The positions of the chain whose Context binds name.
Binding(cs, chain, name) == {i \in 1..Len(chain) : name \in DOMAIN cs[chain[i]].slots}

\* The latest eval_one_op executed  [name] =: value.
Assigned ==
    /\ last.op \in {"invoke", "tail-invoke"}
    /\ last.message = "=:"
    /\ Len(last.args) = 2
    /\ last.args[1].t = "quote"
    /\ last.args[1].body.e = "name"

\* C26: =: walks the Context chain of the frame outward and stores the
\* value in the first Context that binds the name, every other binding and
\* every other Context staying as it was; when no Context of the chain
\* binds the name the assignment fails (internal-error is signaled) and no
\* Context that existed gets a binding.
C26_AssignFirstDefining ==
    Assigned =>
        LET name == last.args[1].body.name
            chain == Outward(last.ctxs, last.frames[last.frame].context)
            binding == Binding(last.ctxs, chain, name)
        IN IF binding = {}
           THEN /\ \A c \in DOMAIN last.ctxs : ctxs[c] = last.ctxs[c]
                /\ last.exc # "none"
                       \/ \E i \in 1..Len(last.signals) :
                              last.signals[i].condition_name = "internal-error"
           ELSE /\ last.exc = "none" /\ last.signals = <<>>
                /\ ctxs = [last.ctxs EXCEPT
                              ![chain[CHOOSE i \in binding : \A j \in binding : i <= j]]
                                  .slots[name] = last.args[2]]

\* An assignment went past a Context that does not bind the name and
\* changed the first of two Contexts that do.
C26_AssignedPastFrame ==
    /\ Assigned
    /\ LET name == last.args[1].body.name
           chain == Outward(last.ctxs, last.frames[last.frame].context)
           binding == Binding(last.ctxs, chain, name)
       IN /\ binding # {}
          /\ 1 \notin binding
          /\ ctxs # last.ctxs

\* The latest eval_one_op executed create-slot.
Defining == last.op = "create-slot"

DefinedName == last.frames[last.frame].sequence[last.frames[last.frame].spot + 1].a

DefiningFrame == last.frames[last.frame].context

\* The programs that define a local their body has defined already.
LetTwice == {"let-twice"}

\* C27: defining a local fails when the Context of the frame binds the
\* name already, and the binding keeps its value: a second let of one body
\* is rejected by the compiler (ValueError, nothing runs), a name bound by
\* an earlier top-level statement or by a let a branch quote ran in the
\* same Context is rejected by create-slot (AssertionError).  A name bound
\* only in an outer Context is defined in the frame's own Context.
C27_LetNeverOverwrites ==
    /\ input.program \in LetTwice => status = "ValueError" /\ frames = <<>>
    /\ Defining =>
           IF DefinedName \in DOMAIN last.ctxs[DefiningFrame].slots
           THEN last.exc # "none" /\ status = last.exc /\ ctxs = last.ctxs
           ELSE /\ last.exc = "none"
                /\ DOMAIN ctxs = DOMAIN last.ctxs
                /\ \A c \in DOMAIN ctxs : c # DefiningFrame => ctxs[c] = last.ctxs[c]
                /\ ctxs[DefiningFrame].base = last.ctxs[DefiningFrame].base
                /\ DOMAIN ctxs[DefiningFrame].slots
                       = DOMAIN last.ctxs[DefiningFrame].slots \cup {DefinedName}
                /\ \A n \in DOMAIN last.ctxs[DefiningFrame].slots :
                       ctxs[DefiningFrame].slots[n] = last.ctxs[DefiningFrame].slots[n]
                /\ ctxs[DefiningFrame].slots[DefinedName]
                       = last.frames[last.frame].data_stack[
                             Len(last.frames[last.frame].data_stack)]

\* A let of a branch quote was rejected: the Context it ran in, the one of
\* the enclosing body, bound the name.
C27_BranchLetRejected ==
    /\ Defining
    /\ input.program = "let-branch"
    /\ DefinedName \in DOMAIN last.ctxs[DefiningFrame].slots
    /\ status = "AssertionError"
    /\ ctxs[DefiningFrame].slots[DefinedName] = NumberValue(1)

(***************************************************************************)
(* Compilation of quote bodies.                                            *)
(***************************************************************************)
\* C28: quote bodies are compiled lazily.  Lowering a quote whose body
\* names something unbound does not fail: a program that never calls the
\* quote runs to its result, and so does one that binds the name after
\* creating the quote and before calling it.
C28_QuoteBodiesCompiledLazily ==
    input.program \in {"quote-unused", "quote-forward", "quote-backward"} =>
        /\ status # "ValueError"
        /\ status # "running" => status = "returned" /\ result = NumberValue(input.n)

(***************************************************************************)
(* Invoking a Continuation with a value of any kind.                       *)
(***************************************************************************)
ResumeProgramNames ==
    {"resume-number", "resume-quote", "resume-continuation", "resume-return-continuation"}

\* The values Continuations were invoked with, in order.
ResumedWith == [i \in {j \in 1..Len(log) : log[j].kind = "resume"} |-> log[i].value]

\* C29: invoking a Continuation with v makes v the result of the call/cc
\* that captured it, whatever kind of value v is: v is not invoked and
\* call/cc is not executed again.  In a program that is one call/cc whose
\* quote invokes the Continuation once, call/cc captures one Continuation
\* only, the Continuation is invoked once only, and the program returns v.
C29_ResumeDeliversValue ==
    input.program \in ResumeProgramNames =>
        /\ Len(conts) <= 1
        /\ Cardinality(DOMAIN ResumedWith) <= 1
        /\ status # "running" =>
               /\ status = "returned"
               /\ \E i \in DOMAIN ResumedWith : result = ResumedWith[i]

(***************************************************************************)
(* Cleanup actions of frames a Continuation invocation discards.           *)
(***************************************************************************)
\* Step i invoked a Continuation and thereby took frame f, which had a
\* cleanup action pending and is in no copy of the Continuation, off the
\* call stack.
Discarded(f, i) ==
    log[i].kind = "resume" /\ \E j \in 1..Len(log[i].pending) : log[i].pending[j] = f

\* C30: a cleanup action runs when its activation ends by any means: when
\* the invocation of a Continuation replaces the call stack and discards a
\* frame with a pending cleanup action, that action has run by the time
\* eval_toplevel returns.
C30_DiscardedCleanupRuns ==
    status = "returned" =>
        \A i \in DOMAIN log : \A f \in DOMAIN frames :
            Discarded(f, i) => \E a \in Later(i) : RanCleanup(f, a)

(***************************************************************************)
(* Frames flagged force_unwind.                                            *)
(***************************************************************************)
\* The last eval_one_op call found a frame flagged force_unwind on top.
ForcedOnTop ==
    /\ last.op \notin {"none", "exit"}
    /\ last.frames[last.frame].force_unwind

\* C31: a frame flagged force_unwind executes no further bytecode: the
\* step that finds it on top takes the return path whatever its spot is,
\* takes the frame off the call stack and, when the frame has a cleanup
\* action, starts that action in a cleanup frame.
C31_ForcedFrameOnlyPops ==
    ForcedOnTop =>
        /\ last.op = "return"
        /\ ~Contains(call_stack, last.frame)
        /\ ~IsNone(last.frames[last.frame].cleanup) =>
               /\ last.exc = "none"
               /\ Top > Len(last.frames)
               /\ frames[Top].is_cleanup

(***************************************************************************)
(* The assertions at the head of eval_one_op.                              *)
(***************************************************************************)
\* What eval_one_op asserts of the frame it steps, and the return path of a
\* cleanup frame.
WellFormed(frame) ==
    /\ 0 <= frame.spot /\ frame.spot <= Len(frame.sequence)
    /\ ~(frame.is_cleanup /\ frame.force_unwind)
    /\ frame.is_cleanup => ~IsNone(frame.cleanup_retain)

\* C32: every frame, live or copied into a Continuation, is never both
\* is_cleanup and force_unwind, has a cleanup_retain value when it is
\* is_cleanup and has 0 <= spot <= len(sequence); so the head assertions of
\* eval_one_op held in every step taken.
C32_HeadAssertionsHold ==
    /\ \A f \in DOMAIN frames : WellFormed(frames[f])
    /\ last.op \notin {"none", "exit"} => WellFormed(last.frames[last.frame])

\* A Continuation captured during an unwinding holds a copy of a cleanup
\* frame and a copy of a frame flagged force_unwind.
C32_SnapshotOfUnwinding ==
    \E k \in DOMAIN conts : \E i, j \in 1..Len(conts[k].call_stack) :
        /\ frames[conts[k].call_stack[i]].is_cleanup
        /\ frames[conts[k].call_stack[j]].force_unwind

(***************************************************************************)
(* The count of live ReturnContinuations of a frame.                       *)
(***************************************************************************)
\* The successful call/rc captures on frame f, and the successful
\* invocations of a ReturnContinuation that returns to f.
Captures(f) == {i \in DOMAIN log : log[i].kind = "call/rc" /\ log[i].target = f}
Invocations(f) == {i \in DOMAIN log : log[i].kind = "rc" /\ log[i].target = f}

\* C33: num_nonlocal_returns of a frame is never negative and is the number
\* of successful call/rc captures on the frame minus the number of
\* successful invocations of ReturnContinuations targeting it; a
\* ReturnContinuation is invoked successfully only while the count of its
\* frame is at least 1.
C33_CountIsCapturesMinusInvocations ==
    /\ \A f \in DOMAIN frames :
           /\ frames[f].num_nonlocal_returns >= 0
           /\ frames[f].num_nonlocal_returns =
                  Cardinality(Captures(f)) - Cardinality(Invocations(f))
    /\ (log # <<>> /\ log[Len(log)].kind = "rc") =>
           last.frames[log[Len(log)].target].num_nonlocal_returns >= 1

LeastCandidates ==
    {i \in Candidates :
        \A j \in Candidates \ {i} :
            method_lte(outcome.before.types, SentMethods[i], SentMethods[j])}

\* C35: when exactly one of the methods that match the arguments is <=
\* every other method that matches, select_method returns that method and
\* signals no ambiguous-method-resolution, also when mix-in:to: changed the
\* subtype relation after the methods were registered.
C35_UniqueLeastSelected ==
    (Sent /\ Cardinality(LeastCandidates) = 1) =>
        outcome.selected =
            [kind |-> "method", method |-> SentMethods[Least(LeastCandidates)]]

(***************************************************************************)
(* Every type in a linearization is a supertype.                           *)
(***************************************************************************)
\* The types in the cached linearization of t.
Linearized(t) == {Linearization(Types, t)[i] : i \in 1..Len(Linearization(Types, t))}

\* C36: is_subtype(A, B) holds for every type B among the bases of A or in
\* the linearization of A, whatever the number of bases; so a type matcher on
\* B matches the instances of a dataclass A.
C36_LinearizedAreSupertypes ==
    \A a \in DOMAIN Types : \A b \in Bases(a) \cup Linearized(a) :
        /\ is_subtype(Types, a, b)
        /\ Types[a].kind = "dataclass" =>
               matches(Types, ParameterTypeMatcher(b), DataclassValue(a, <<>>)) = "yes"

(***************************************************************************)
(* matcher_lte as an order on matched sets.                                *)
(***************************************************************************)
\* The values matchers are tried on and the matchers compared: the any
\* matcher, a type matcher on Number and on every mixin and dataclass
\* defined so far, and value matchers on a number and on the type Number (a
\* dataclass constructor matches its receiver with a value matcher on the
\* type).
MatchedValues == {NumberValue(1), NumberValue(2), TypeValue("Number")}

Matchers ==
    {ParameterAnyMatcher}
        \cup {ParameterTypeMatcher(t) : t \in TypeNames \cap DOMAIN Types}
        \cup {ParameterValueMatcher(v) : v \in {NumberValue(1), TypeValue("Number")}}

\* C37: matcher_lte is reflexive and transitive, value matchers of
\* different literals are incomparable, any matchers are mutually equal,
\* and matcher_lte(a, b) implies that b matches every value a matches.
C37_MatcherOrderSound ==
    /\ \A a \in Matchers : matcher_lte(Types, a, a)
    /\ \A a, b, c \in Matchers :
           (matcher_lte(Types, a, b) /\ matcher_lte(Types, b, c)) => matcher_lte(Types, a, c)
    /\ \A a, b \in Matchers :
           (a.k = "value" /\ b.k = "value" /\ a # b) =>
               (~matcher_lte(Types, a, b) /\ ~matcher_lte(Types, b, a))
    /\ \A a, b \in Matchers :
           (a.k = "any" /\ b.k = "any") =>
               (matcher_lte(Types, a, b) /\ matcher_lte(Types, b, a))
    /\ \A a, b \in Matchers : \A v \in MatchedValues :
           (matcher_lte(Types, a, b) /\ matches(Types, a, v) = "yes") =>
               matches(Types, b, v) = "yes"

(***************************************************************************)
(* The data-stack effect of emitted bytecode, read off the operations as   *)
(* eval_one_op executes them.                                              *)
(***************************************************************************)
\* How many values an operation takes from the data stack.
Takes(op) ==
    CASE op.op \in {"invoke", "tail-invoke", "components>vector", "components>tuple"} -> op.n
      [] op.op \in {"drop", "create-slot"} -> 1
      [] OTHER -> 0

\* How many values it leaves there: create-slot only peeks at its value.
Leaves(op) == IF op.op = "drop" THEN 0 ELSE 1

\* The stack depth after the first i operations of code run from an empty
\* stack, or -1 once an operation finds too few values.
RECURSIVE DepthAfter(_, _)
DepthAfter(code, i) ==
    IF i = 0 THEN 0
    ELSE LET before == DepthAfter(code, i - 1)
         IN IF before < 0 \/ before < Takes(code[i]) THEN -1
            ELSE before - Takes(code[i]) + Leaves(code[i])

\* C38: the bytecode of every frame's expression (a top-level expression, a
\* quote body, a method body) has a net data-stack effect of exactly one
\* value and never takes a value from an empty stack, so that a sequence
\* drops every part's result but the last, compile-time forms included.
C38_NetEffectOne ==
    \A f \in 1..Len(frames) :
        DepthAfter(frames[f].sequence, Len(frames[f].sequence)) = 1

(***************************************************************************)
(* The Context a bytecode body is run in.                                  *)
(***************************************************************************)
\* The last step invoked a bytecode body: the frame on top of the call stack
\* was made by it, and is no copy installed from a Continuation.
BodyEntered ==
    /\ status = "running"
    /\ last.op \in {"invoke", "tail-invoke"}
    /\ last.signals = <<>>
    /\ call_stack # <<>>
    /\ call_stack[Len(call_stack)] > Len(last.frames)
    /\ last.args[1].t # "continuation"

\* Whether the message invoked was a method with a quote body.
MethodEntered ==
    /\ last.message \in DOMAIN ctxs[1].slots
    /\ ctxs[1].slots[last.message].t = "multimethod"
    /\ ctxs[1].slots[last.message].methods[1].body.kind = "quote"

\* The context the invoked body captured: the method body's, the chosen
\* branch quote's, the called quote's, or that of the cleanup quote when
\* cleanup: had a receiver that is no quote.
CapturedContext ==
    IF MethodEntered THEN ctxs[1].slots[last.message].methods[1].body.context
    ELSE IF frames[call_stack[Len(call_stack)]].is_cleanup THEN last.args[2].context
    ELSE IF last.message = "if:then:else:"
    THEN (IF last.args[2].t = "bool" /\ last.args[2].value
          THEN last.args[3] ELSE last.args[4]).context
    ELSE last.args[1].context

\* C39: every invocation of a bytecode body (a method, a called quote, the
\* branch quote run by if:then:else:) executes in a new Context whose parent
\* is the body's captured context.
C39_BodyRunsInNewContext ==
    BodyEntered =>
        LET c == frames[call_stack[Len(call_stack)]].context
        IN /\ c > Len(last.ctxs)
           /\ ctxs[c].base = CapturedContext

(***************************************************************************)
(* The dispatch tree the IR compiler puts in place of a multimethod        *)
(* invocation.                                                             *)
(***************************************************************************)
LabelOp == [ir |-> "label"]
InvokeMethodOp(method) == [ir |-> "invoke-method", method |-> method]
SignalOp(condition_name) == [ir |-> "signal", condition_name |-> condition_name]

\* Compiler.tree_inline_multimethod_dispatches on one InvokeMultimethodOp
\* whose multimethod asks for inlining: a MultimethodDispatchOp with one
\* block per method, in the order of multimethod.methods, and the blocks for
\* the two ways dispatch fails.  The block for ambiguity is given
\* no_matching_method_signal_op, and is left out when there is exactly one
\* method.
tree_inline_multimethod_dispatches(multimethod) ==
    [slot_name |-> multimethod.name,
     dispatch |-> [i \in 1..Len(multimethod.methods) |->
                      [method |-> multimethod.methods[i],
                       block |-> <<LabelOp, InvokeMethodOp(multimethod.methods[i])>>]],
     no_matching_method |-> <<SignalOp("no-matching-method")>>,
     ambiguous_method_resolution |->
         IF Len(multimethod.methods) # 1 THEN <<SignalOp("no-matching-method")>> ELSE None]

\* The block a MultimethodDispatchOp transfers to, its fields read as they
\* are named: the block paired with the method that dispatch over the
\* listed methods resolves to, no_matching_method when none matches,
\* ambiguous_method_resolution when the matching ones have no least.
Dispatched(ts, op, args) ==
    LET methods == [i \in 1..Len(op.dispatch) |-> op.dispatch[i].method]
        sel == select_method(ts, MultiMethod(op.slot_name, methods), args)
    IN IF sel.kind = "method"
       THEN op.dispatch[Least({i \in 1..Len(methods) : methods[i] = sel.method})].block
       ELSE IF sel.condition_name = "no-matching-method" THEN op.no_matching_method
       ELSE op.ambiguous_method_resolution

\* What running a block of the tree does, as select_method's results are
\* written: the method it invokes or the condition it signals.
BlockRuns(block) ==
    LET op == block[Len(block)]
    IN IF op.ir = "invoke-method" THEN [kind |-> "method", method |-> op.method]
       ELSE [kind |-> "signal", condition_name |-> op.condition_name]

\* C40: the dispatch tree built for a multimethod is equivalent to
\* select_method: for the argument tuple of every send it runs the method
\* select_method returns, signals no-matching-method when no method
\* matches, and signals ambiguous-method-resolution when the matching
\* methods have no least one.
C40_TreeEquivalentToSelect ==
    (Sent /\ outcome.selected.kind # "raise") =>
        BlockRuns(Dispatched(outcome.before.types,
                             tree_inline_multimethod_dispatches(outcome.before.slots[outcome.message]),
                             <<outcome.arg>>))
            = outcome.selected
====
